---- MODULE Spec2Model ----
(***************************************************************************)
(* The tool-calling orchestration core of the RAG chatbot:                 *)
(*   backend/ai_generator.py  - AIGenerator (the response orchestrator)    *)
(*   backend/search_tools.py  - CourseSearchTool, CourseOutlineTool,       *)
(*                               ToolManager                               *)
(* One generate_response call is a small state machine whose steps are the *)
(* points where it talks to the outside: a model call being answered (or   *)
(* raising) and a content block of the current response being processed.   *)
(* Spec and FairSpec are the runs of generate_response; ToolSpec is the    *)
(* two tools called directly, one call after the other; ManagerSpec is the *)
(* ToolManager's methods called one after the other; QuerySpec is the      *)
(* caller's cycle of generate_response, get_last_sources, reset_sources;   *)
(* SharedSpec is that cycle with a second query on the same ToolManager;   *)
(* SoftSpec is generate_response with tools that answer with error texts;  *)
(* ConcurrentSpec is two generate_response calls on one AIGenerator.       *)
(* Python strings are TLA+ strings, dicts are records (a key the dict does  *)
(* not hold is a field the record does not have), None is the string       *)
(* "None".                                                                 *)
(***************************************************************************)
EXTENDS Integers, Sequences, FiniteSets, TLC

VARIABLES
  pc,                \* where the generate_response call stands
  tools,             \* argument tools: "None", "[]" or the definitions
  tool_manager,      \* argument tool_manager: TRUE when one was passed
  api_params,        \* generate_response's api_params / the rounds' base_params
  messages,          \* _execute_tool_calling_rounds: messages
  current_response,  \* _execute_tool_calling_rounds: current_response
  current_round,     \* _execute_tool_calling_rounds: current_round
  block_index,       \* _execute_tools_in_response: position of the for loop
  tool_results,      \* _execute_tools_in_response: tool_results
  critical_failure,  \* _execute_tools_in_response: critical_failure
  calls,             \* the requests handed to client.messages.create, in order
  responses,         \* the responses client.messages.create returned, in order
  executed,          \* the tool_manager.execute_tool calls made, in order
  result,            \* what generate_response returned ("None" before / on raise)
  last_sources,      \* per tool object that has the attribute: its last_sources
  model_tool_calls,  \* the tool calls the model may ask for (fixed for a run)
  registry,          \* ToolManager.tools: the dict, as its items in order
  caller_sources,    \* the list the caller last got from get_last_sources ([] before)
  other_query        \* a second query on the same ToolManager: where it stands

vars == <<pc, tools, tool_manager, api_params, messages, current_response,
          current_round, block_index, tool_results, critical_failure, calls,
          responses, executed, result, last_sources, model_tool_calls, registry,
          caller_sources, other_query>>

(***************************************************************************)
(* Bounds of the model.                                                    *)
(***************************************************************************)
\* The largest number of content blocks a model response carries.
MaxBlocks == 2

(***************************************************************************)
(* Program constants.                                                      *)
(***************************************************************************)
\* variant: one round more than the code allows
max_rounds_three == 2 + 1
\* _execute_tool_calling_rounds(..., max_rounds: int = 2)
max_rounds == 2

\* self.base_params = {"model": self.model, "temperature": 0, "max_tokens": 800}
base_params == [model |-> "model", temperature |-> 0, max_tokens |-> 800]

SYSTEM_PROMPT == "SYSTEM_PROMPT"

\* str(n) for the small numbers the model uses
Digits == <<"0", "1", "2", "3", "4", "5", "6", "7", "8", "9">>
ToStr(n) == Digits[n + 1]

\* Python truthiness of a value: None, "" and [] are false
Truthy(v) == v \notin {"None", "", "[]"}

\* dict.get(key, default)
Get(d, k, default) == IF k \in DOMAIN d THEN d[k] ELSE default

(***************************************************************************)
(* The vector index the search tool consults (VectorStore, vector_store.py) *)
(* as a small fixed index.                                                 *)
(***************************************************************************)
NoResults == [documents |-> <<>>, metadata |-> <<>>, error |-> "None"]

\* VectorStore.search(query, course_name, lesson_number) -> SearchResults
store_search(query, course_name, lesson_number) ==
  CASE query = "q_hit" ->
         [documents |-> <<"doc A">>,
          metadata |-> <<[course_title |-> "MCP", lesson_number |-> 2]>>,
          error |-> "None"]
    [] query = "q_course" ->
         [documents |-> <<"doc B">>,
          metadata |-> <<[course_title |-> "MCP"]>>,
          error |-> "None"]
    [] query = "q_many" ->
         [documents |-> <<"doc C", "doc D", "doc E">>,
          metadata |-> <<[course_title |-> "MCP", lesson_number |-> 0],
                         [course_title |-> "MCP"],
                         [course_title |-> "Chroma", lesson_number |-> 3]>>,
          error |-> "None"]
    [] query = "q_err" ->
         [documents |-> <<>>, metadata |-> <<>>, error |-> "Search error: index unavailable"]
    [] OTHER -> NoResults

\* VectorStore.get_lesson_link(course_title, lesson_number) -> link or None
get_lesson_link(course_title, lesson_num) ==
  IF course_title = "MCP" /\ lesson_num = 2 THEN "https://example.com/lesson/2" ELSE "None"

\* VectorStore.get_course_link(course_title) -> link or None
get_course_link(course_title) ==
  IF course_title = "MCP" THEN "https://example.com/course/mcp" ELSE "None"

(***************************************************************************)
(* CourseSearchTool (search_tools.py)                                      *)
(***************************************************************************)
RECURSIVE JoinBlocks(_)
\* "\n\n".join(formatted)
JoinBlocks(formatted) ==
  IF Len(formatted) = 0 THEN ""
  ELSE IF Len(formatted) = 1 THEN formatted[1]
  ELSE formatted[1] \o "\n\n" \o JoinBlocks(Tail(formatted))

\* variant: "if lesson_num" in place of "if lesson_num is not None"
Header_truthy_lesson(meta) ==
  "[" \o Get(meta, "course_title", "unknown")
      \o (IF "lesson_number" \in DOMAIN meta /\ meta.lesson_number # 0
          THEN " - Lesson " \o ToStr(meta.lesson_number) ELSE "")
      \o "]"

\* one pass of the loop of _format_results: the header of a (doc, meta) pair
Header(meta) ==
  "[" \o Get(meta, "course_title", "unknown")
      \o (IF "lesson_number" \in DOMAIN meta
          THEN " - Lesson " \o ToStr(meta.lesson_number) ELSE "")
      \o "]"

\* one pass of the loop of _format_results: the source of a (doc, meta) pair
Source(meta) ==
  LET course_title == Get(meta, "course_title", "unknown")
      has_lesson == "lesson_number" \in DOMAIN meta
      source_text == course_title \o (IF has_lesson
                                      THEN " - Lesson " \o ToStr(meta.lesson_number)
                                      ELSE "")
      link == IF has_lesson THEN get_lesson_link(course_title, meta.lesson_number)
              ELSE get_course_link(course_title)
  IN IF link # "None" THEN [text |-> source_text, link |-> link]
     ELSE [text |-> source_text]

\* zip(results.documents, results.metadata) stops at the shorter one
ZipLen(results) ==
  IF Len(results.documents) <= Len(results.metadata)
  THEN Len(results.documents) ELSE Len(results.metadata)

\* variant: the sources are added to those the slot holds
StoreSources_appending(last, sources) == last \o sources

\* "self.last_sources = sources", line 129
StoreSources(last, sources) == sources

\* CourseSearchTool._format_results: the text returned and the new last_sources
_format_results(results, last) ==
  LET n == ZipLen(results)
      formatted == [i \in 1..n |-> Header(results.metadata[i]) \o "\n" \o results.documents[i]]
      sources == [i \in 1..n |-> Source(results.metadata[i])]
  IN [raised |-> FALSE, value |-> JoinBlocks(formatted),
      last_sources |-> StoreSources(last, sources)]

\* Python's binding of **kwargs to execute(self, query, course_name=None, lesson_number=None)
SearchBinds(input) ==
  /\ "query" \in DOMAIN input
  /\ DOMAIN input \subseteq {"query", "course_name", "lesson_number"}

\* variant: the error path clears the slot
SearchError_clearing(results, last) ==
  [raised |-> FALSE, value |-> results.error, last_sources |-> <<>>]

\* "if results.error: return results.error", lines 75-76
SearchError(results, last) ==
  [raised |-> FALSE, value |-> results.error, last_sources |-> last]

\* CourseSearchTool.execute(**input) with the slot holding `last`
CourseSearchTool_execute(input, last) ==
  IF ~SearchBinds(input)
  THEN [raised |-> TRUE, value |-> "execute() got unexpected arguments", last_sources |-> last]
  ELSE
    LET has_course == "course_name" \in DOMAIN input /\ input.course_name # ""
        has_lesson == "lesson_number" \in DOMAIN input /\ input.lesson_number # 0
        results == store_search(input.query,
                                Get(input, "course_name", "None"),
                                Get(input, "lesson_number", -1))
    IN IF results.error # "None" /\ results.error # ""
       THEN SearchError(results, last)
       ELSE IF Len(results.documents) = 0
       THEN [raised |-> FALSE,
             value |-> "No relevant content found"
                        \o (IF has_course THEN " in course '" \o input.course_name \o "'" ELSE "")
                        \o (IF has_lesson THEN " in lesson " \o ToStr(input.lesson_number) ELSE "")
                        \o ".",
             last_sources |-> last]
       ELSE _format_results(results, last)

(***************************************************************************)
(* The course catalog the outline tool consults (VectorStore), as a small  *)
(* fixed catalog.                                                          *)
(***************************************************************************)
\* VectorStore._resolve_course_name(course_name) -> canonical title or None
_resolve_course_name(course_name) ==
  CASE course_name = "mcp" -> "MCP"
    [] course_name = "chroma" -> "Chroma"
    [] course_name = "ghost" -> "Ghost"
    [] course_name = "broken" -> "Broken"
    [] course_name = "odd" -> "Odd"
    [] course_name = "rag" -> "RAG"
    [] course_name = "locked" -> "Locked"
    [] OTHER -> "None"

\* the index is out of reach while this name is resolved: the lookup raises
resolve_raises(course_name) == course_name = "down"

\* the catalog is out of reach while this record is fetched: get raises
catalog_raises(id) == id = "Locked"

\* str(e) of the exception an index out of reach raises
IndexDown == "index unavailable"

\* the lessons_json texts the catalog holds
McpLessonsJson == "[{lesson 2: Servers, link}, {lesson 1: Intro}]"
OddLessonsJson == "[1]"
RagLessonsJson == "[{lesson 0: Welcome}, {lesson 1: Basics}, {lesson 2: Agents}]"
BrokenLessonsJson == "[{"

\* VectorStore.course_catalog.get(ids=[id]) -> {"metadatas": [...]}
course_catalog_get(id) ==
  CASE id = "MCP" ->
         [metadatas |-> <<[title |-> "MCP", instructor |-> "Ada",
                           course_link |-> "https://example.com/course/mcp",
                           lessons_json |-> McpLessonsJson]>>]
    [] id = "Chroma" ->
         [metadatas |-> <<[title |-> "Chroma", lessons_json |-> "[]"]>>]
    [] id = "Broken" ->
         [metadatas |-> <<[title |-> "Broken",
                           course_link |-> "https://example.com/course/broken",
                           lessons_json |-> BrokenLessonsJson]>>]
    [] id = "RAG" ->
         [metadatas |-> <<[title |-> "RAG", lessons_json |-> RagLessonsJson]>>]
    [] id = "Odd" ->
         [metadatas |-> <<[title |-> "Odd",
                           course_link |-> "https://example.com/course/odd",
                           lessons_json |-> OddLessonsJson]>>]
    [] OTHER -> [metadatas |-> <<>>]

(***************************************************************************)
(* CourseOutlineTool (search_tools.py)                                     *)
(***************************************************************************)
\* json.loads on the texts of the catalog: the list parsed, or JSONDecodeError.
\* An element that is no JSON object is the record [not_a_dict |-> element].
json_loads(text) ==
  CASE text = "[]" -> [raised |-> FALSE, value |-> <<>>]
    [] text = McpLessonsJson ->
         [raised |-> FALSE,
          value |-> <<[lesson_number |-> 2, lesson_title |-> "Servers",
                       lesson_link |-> "https://example.com/lesson/2"],
                      [lesson_number |-> 1, lesson_title |-> "Intro"]>>]
    [] text = RagLessonsJson ->
         [raised |-> FALSE,
          value |-> <<[lesson_number |-> 0, lesson_title |-> "Welcome"],
                      [lesson_number |-> 1, lesson_title |-> "Basics"],
                      [lesson_number |-> 2, lesson_title |-> "Agents"]>>]
    [] text = OddLessonsJson ->
         [raised |-> FALSE, value |-> <<[not_a_dict |-> 1]>>]
    [] OTHER -> [raised |-> TRUE, value |-> "Expecting property name enclosed in double quotes"]

RECURSIVE JoinLines(_)
\* "\n".join(outline_parts)
JoinLines(parts) ==
  IF Len(parts) = 0 THEN ""
  ELSE IF Len(parts) = 1 THEN parts[1]
  ELSE parts[1] \o "\n" \o JoinLines(Tail(parts))

\* one pass of the loop over the lessons, lines 208-216
LessonLine(lesson) ==
  (IF "lesson_number" \in DOMAIN lesson THEN ToStr(lesson.lesson_number) ELSE "?")
    \o ". " \o Get(lesson, "lesson_title", "Untitled")
    \o (IF Truthy(Get(lesson, "lesson_link", "None"))
        THEN " - [Link](" \o lesson.lesson_link \o ")" ELSE "")

\* variant: the lessons are put in the order of their numbers first
LessonsInOrder_sorted(lessons) ==
  SortSeq(lessons, LAMBDA a, b : a.lesson_number < b.lesson_number)

\* "for lesson in lessons": the list as json.loads gave it, line 208
LessonsInOrder(lessons) == lessons

\* the outline text, lines 192-198 and 206-220
OutlineText(course_title, instructor, course_link, lessons) ==
  JoinLines(<<"**" \o course_title \o "**">>
            \o (IF Truthy(instructor) THEN <<"*Instructor: " \o instructor \o "*">> ELSE <<>>)
            \o (IF Truthy(course_link) THEN <<"*Course Link: " \o course_link \o "*">> ELSE <<>>)
            \o (IF Len(lessons) > 0
                THEN <<"\n**Course Outline (" \o ToStr(Len(lessons)) \o " lessons):**">>
                       \o [i \in 1..Len(lessons) |-> LessonLine(LessonsInOrder(lessons)[i])]
                ELSE <<"\nNo lessons found for this course.">>))

\* variant: the source never carries the link
OutlineSource_plain(course_title, course_link) ==
  [text |-> course_title]

\* source_obj, lines 200-203
OutlineSource(course_title, course_link) ==
  IF Truthy(course_link) THEN [text |-> course_title, link |-> course_link]
  ELSE [text |-> course_title]

\* variant: a failed resolution clears the slot
NoCourseFound_clearing(course_title, last) ==
  [raised |-> FALSE, value |-> "No course found matching '" \o course_title \o "'",
   last_sources |-> <<>>]

\* "if not resolved_title: return ...", lines 171-172
NoCourseFound(course_title, last) ==
  [raised |-> FALSE, value |-> "No course found matching '" \o course_title \o "'",
   last_sources |-> last]

\* Python's binding of **kwargs to execute(self, course_title)
OutlineBinds(input) == DOMAIN input = {"course_title"}

\* CourseOutlineTool.execute(**input) with the slot holding `last`
CourseOutlineTool_execute(input, last) ==
  IF ~OutlineBinds(input)
  THEN [raised |-> TRUE, value |-> "execute() got unexpected arguments", last_sources |-> last]
  ELSE IF resolve_raises(input.course_title)
  THEN [raised |-> TRUE, value |-> IndexDown, last_sources |-> last]
  ELSE
    LET resolved_title == _resolve_course_name(input.course_title) IN
    IF ~Truthy(resolved_title)
    THEN NoCourseFound(input.course_title, last)
    ELSE IF catalog_raises(resolved_title)
    THEN [raised |-> FALSE,
          value |-> "Error retrieving course outline: " \o IndexDown,
          last_sources |-> last]
    ELSE
      LET results == course_catalog_get(resolved_title) IN
      IF Len(results.metadatas) = 0
      THEN [raised |-> FALSE,
            value |-> "Course '" \o input.course_title \o "' found but no metadata available",
            last_sources |-> last]
      ELSE
        LET metadata == results.metadatas[1]
            course_title == Get(metadata, "title", "Unknown Course")
            course_link == Get(metadata, "course_link", "None")
            instructor == Get(metadata, "instructor", "None")
            parsed == json_loads(Get(metadata, "lessons_json", "[]"))
        IN IF parsed.raised
           THEN [raised |-> FALSE,
                 value |-> "Error retrieving course outline: " \o parsed.value,
                 last_sources |-> last]
           ELSE IF \E i \in 1..Len(parsed.value) : "not_a_dict" \in DOMAIN parsed.value[i]
           THEN [raised |-> FALSE,
                 value |-> "Error retrieving course outline: 'int' object has no attribute 'get'",
                 last_sources |-> <<OutlineSource(course_title, course_link)>>]
           ELSE [raised |-> FALSE,
                 value |-> OutlineText(course_title, instructor, course_link, parsed.value),
                 last_sources |-> <<OutlineSource(course_title, course_link)>>]

(***************************************************************************)
(* ToolManager (search_tools.py)                                           *)
(***************************************************************************)
\* The tool objects a ToolManager is given. The CourseSearchTool and the
\* CourseOutlineTool of the system are called by the names of their
\* definitions; the others implement the Tool interface (lines 8-19) with a
\* definition that bears the search tool's name, no name, or an empty name,
\* and have no last_sources attribute.
ToolObjects ==
  {"search_course_content", "get_course_outline", "stub_search", "no_name", "empty_name"}

\* the text the execute of the stub returns
StubText == "stub result"

\* tool.get_tool_definition(), lines 28-50 and 141-155 (input_schema left out)
get_tool_definition(tool) ==
  CASE tool = "search_course_content" ->
         [name |-> "search_course_content",
          description |-> "Search course materials with smart course name matching and lesson filtering"]
    [] tool = "get_course_outline" ->
         [name |-> "get_course_outline",
          description |-> "Get course outline with lesson list and course link"]
    [] tool = "stub_search" ->
         [name |-> "search_course_content", description |-> "stub"]
    [] tool = "no_name" -> [description |-> "a definition without name"]
    [] tool = "empty_name" -> [name |-> "", description |-> "a definition with an empty name"]

\* a Python dict as the sequence of its items, in insertion order
DictHas(d, k) == \E i \in 1..Len(d) : d[i].key = k
DictGet(d, k) == d[CHOOSE i \in 1..Len(d) : d[i].key = k].value

\* variant: an assignment to a key the dict holds moves the key to the end
DictSet_moving(d, k, v) ==
  SelectSeq(d, LAMBDA item : item.key # k) \o <<[key |-> k, value |-> v]>>

\* variant: an assignment to a key the dict holds is dropped
DictSet_first_wins(d, k, v) ==
  IF DictHas(d, k) THEN d ELSE Append(d, [key |-> k, value |-> v])

\* d[k] = v: a key the dict holds keeps its place and gets the new value
DictSet(d, k, v) ==
  IF DictHas(d, k)
  THEN [i \in 1..Len(d) |-> IF d[i].key = k THEN [key |-> k, value |-> v] ELSE d[i]]
  ELSE Append(d, [key |-> k, value |-> v])

\* variant: only a missing name is refused
register_tool_unless_None(tls, tool) ==
  LET tool_def == get_tool_definition(tool)
      tool_name == Get(tool_def, "name", "None")
  IN IF tool_name = "None"
     THEN [raised |-> TRUE, value |-> "Tool must have a 'name' in its definition",
           tools |-> tls]
     ELSE [raised |-> FALSE, value |-> "None", tools |-> DictSet(tls, tool_name, tool)]

\* ToolManager.register_tool(tool) with self.tools holding `tls`: whether it
\* raised ValueError, the message, self.tools afterwards
register_tool(tls, tool) ==
  LET tool_def == get_tool_definition(tool)
      tool_name == Get(tool_def, "name", "None")
  IN IF ~Truthy(tool_name)
     THEN [raised |-> TRUE, value |-> "Tool must have a 'name' in its definition",
           tools |-> tls]
     ELSE [raised |-> FALSE, value |-> "None", tools |-> DictSet(tls, tool_name, tool)]

\* self.tools of the tool_manager fixture: the search tool registered
RegisteredTools == register_tool(<<>>, "search_course_content").tools

\* "tool_name not in self.tools" negated
IsRegistered(tls, name) == DictHas(tls, name)

\* ToolManager.get_tool_definitions()
get_tool_definitions(tls) ==
  [i \in 1..Len(tls) |-> get_tool_definition(tls[i].value)]

\* variant: last_sources is one attribute shared by all the tools
Tool_execute_shared_slot(tool, input, ls) ==
  CASE tool = "search_course_content" ->
         LET r == CourseSearchTool_execute(input, ls[tool])
         IN [raised |-> r.raised, value |-> r.value,
             last_sources |-> [t \in DOMAIN ls |-> r.last_sources]]
    [] tool = "get_course_outline" ->
         LET r == CourseOutlineTool_execute(input, ls[tool])
         IN [raised |-> r.raised, value |-> r.value,
             last_sources |-> [t \in DOMAIN ls |-> r.last_sources]]
    [] OTHER -> [raised |-> FALSE, value |-> StubText, last_sources |-> ls]

\* tool.execute(**input) with the slots holding `ls`: whether it raised, the
\* text (or the exception's message), the slots afterwards
Tool_execute(tool, input, ls) ==
  CASE tool = "search_course_content" ->
         LET r == CourseSearchTool_execute(input, ls[tool])
         IN [raised |-> r.raised, value |-> r.value,
             last_sources |-> [ls EXCEPT ![tool] = r.last_sources]]
    [] tool = "get_course_outline" ->
         LET r == CourseOutlineTool_execute(input, ls[tool])
         IN [raised |-> r.raised, value |-> r.value,
             last_sources |-> [ls EXCEPT ![tool] = r.last_sources]]
    [] OTHER -> [raised |-> FALSE, value |-> StubText, last_sources |-> ls]

\* variant: a name that is not registered raises KeyError
execute_tool_strict(tls, tool_name, input, ls) ==
  IF ~IsRegistered(tls, tool_name)
  THEN [raised |-> TRUE, value |-> "'" \o tool_name \o "'", last_sources |-> ls]
  ELSE Tool_execute(DictGet(tls, tool_name), input, ls)

\* variant: a name that is not registered goes to the first tool of the registry
execute_tool_defaulting(tls, tool_name, input, ls) ==
  IF ~IsRegistered(tls, tool_name)
  THEN IF Len(tls) = 0
       THEN [raised |-> FALSE, value |-> "Tool '" \o tool_name \o "' not found",
             last_sources |-> ls]
       ELSE Tool_execute(tls[1].value, input, ls)
  ELSE Tool_execute(DictGet(tls, tool_name), input, ls)

\* ToolManager.execute_tool(tool_name, **kwargs) with self.tools holding `tls`
\* and the slots holding `ls`
execute_tool(tls, tool_name, input, ls) ==
  IF ~IsRegistered(tls, tool_name)
  THEN [raised |-> FALSE, value |-> "Tool '" \o tool_name \o "' not found", last_sources |-> ls]
  ELSE Tool_execute(DictGet(tls, tool_name), input, ls)

\* hasattr(tool, "last_sources")
HasSources(tool, ls) == tool \in DOMAIN ls

\* variant: the last tool that holds sources is the one returned
get_last_sources_last(tls, ls) ==
  LET holding == {i \in 1..Len(tls) : HasSources(tls[i].value, ls)
                                        /\ Len(ls[tls[i].value]) > 0}
  IN IF holding = {} THEN <<>>
     ELSE ls[tls[CHOOSE i \in holding : \A j \in holding : i >= j].value]

\* ToolManager.get_last_sources(): the slot of the first tool that has one
\* which is not empty, else []
get_last_sources(tls, ls) ==
  LET holding == {i \in 1..Len(tls) : HasSources(tls[i].value, ls)
                                        /\ Len(ls[tls[i].value]) > 0}
  IN IF holding = {} THEN <<>>
     ELSE ls[tls[CHOOSE i \in holding : \A j \in holding : i <= j].value]

\* the tool whose list object get_last_sources returns, line 255 ("None":
\* the new [] of line 256)
get_last_sources_owner(tls, ls) ==
  LET holding == {i \in 1..Len(tls) : HasSources(tls[i].value, ls)
                                        /\ Len(ls[tls[i].value]) > 0}
  IN IF holding = {} THEN "None"
     ELSE tls[CHOOSE i \in holding : \A j \in holding : i <= j].value

\* variant: the list that is the tool's last_sources is emptied or refilled
\* in place (last_sources[:] = new), so whoever holds it sees the new elements
slot_updated_in_place(held, new) == [list |-> new, shared |-> TRUE]

\* "self.last_sources = sources" (line 129), "self.last_sources = [source_obj]"
\* (line 204), "tool.last_sources = []" (line 263), seen by the holder of the
\* list that was the tool's last_sources: the attribute is bound to another
\* list object, the list held keeps its elements and is the tool's no longer
slot_assigned(held, new) == [list |-> held, shared |-> FALSE]

\* what becomes of the caller's list when the slot of `tool` is assigned
\* `new`: caller is the list and the tool whose last_sources it is ("None":
\* no tool's)
caller_after_assignment(caller, tool, new) ==
  IF caller.alias = tool /\ tool # "None"
  THEN LET a == slot_assigned(caller.list, new)
       IN [list |-> a.list, alias |-> IF a.shared THEN tool ELSE "None"]
  ELSE caller

\* variant: only the first tool's slot is cleared
reset_sources_first_only(tls, ls) ==
  [t \in DOMAIN ls |-> IF Len(tls) > 0 /\ tls[1].value = t THEN <<>> ELSE ls[t]]

\* variant: the slots are left as they are
reset_sources_keeping(tls, ls) == ls

\* ToolManager.reset_sources(): the slot of every tool of the registry that
\* has one becomes []
reset_sources(tls, ls) ==
  [t \in DOMAIN ls |-> IF \E i \in 1..Len(tls) : tls[i].value = t THEN <<>> ELSE ls[t]]

\* the second query before it began
NoOtherQuery == [pc |-> "idle", sources |-> <<>>, acted |-> FALSE]

(***************************************************************************)
(* The model-call boundary: what client.messages.create may answer.        *)
(***************************************************************************)
StopReasons == {"tool_use", "end_turn"}

TextKind == [type |-> "text"]
\* a search that finds a passage
SearchHit == [type |-> "tool_use", name |-> "search_course_content",
              input |-> [query |-> "q_hit"]]
\* a search called with another tool's arguments: binding them raises TypeError
SearchBad == [type |-> "tool_use", name |-> "search_course_content",
              input |-> [course_title |-> "MCP"]]
\* a call of a tool that is not registered
Unregistered == [type |-> "tool_use", name |-> "get_course_outline",
                 input |-> [course_title |-> "MCP"]]

\* the tool calls the model asks for in the runs of Spec: one that returns
\* and one that raises
ToolCalls == {SearchHit, SearchBad}
BlockKinds == {TextKind} \cup model_tool_calls

ContentShapes == UNION {[1..k -> BlockKinds] : k \in 0..MaxBlocks}

\* the i-th content block of the n-th response: texts and ids are unique
MkBlock(n, i, kind) ==
  IF kind.type = "text"
  THEN [type |-> "text", text |-> "text_" \o ToStr(n) \o "_" \o ToStr(i)]
  ELSE [type |-> "tool_use", id |-> "toolu_" \o ToStr(n) \o "_" \o ToStr(i),
        name |-> kind.name, input |-> kind.input]

\* the responses the n-th model call of a generate_response call may return
Responses(n) ==
  {[stop_reason |-> s, content |-> [i \in 1..Len(shape) |-> MkBlock(n, i, shape[i])]] :
     s \in StopReasons, shape \in ContentShapes}

NoResponse == [stop_reason |-> "None", content |-> <<>>]

(***************************************************************************)
(* AIGenerator (ai_generator.py)                                           *)
(***************************************************************************)
ToolDefs == "tool_definitions"
Queries == {"What is MCP?"}
Histories == {"None", "User: hi"}
ToolsArgs == {"None", "[]", ToolDefs}

\* variant: "if tools is not None" in place of "if tools"
FirstParams_unless_None(query, conversation_history, tls) ==
  LET system_content ==
        IF Truthy(conversation_history)
        THEN SYSTEM_PROMPT \o "\n\nPrevious conversation:\n" \o conversation_history
        ELSE SYSTEM_PROMPT
      plain == [messages |-> <<[role |-> "user", content |-> query]>>,
                system |-> system_content] @@ base_params
  IN IF tls # "None"
     THEN [tools |-> tls, tool_choice |-> [type |-> "auto"]] @@ plain
     ELSE plain

\* generate_response, lines 76-92: the parameters of the first model call
FirstParams(query, conversation_history, tls) ==
  LET system_content ==
        IF Truthy(conversation_history)
        THEN SYSTEM_PROMPT \o "\n\nPrevious conversation:\n" \o conversation_history
        ELSE SYSTEM_PROMPT
      plain == [messages |-> <<[role |-> "user", content |-> query]>>,
                system |-> system_content] @@ base_params
  IN IF Truthy(tls)
     THEN [tools |-> tls, tool_choice |-> [type |-> "auto"]] @@ plain
     ELSE plain

\* _get_next_response: the parameters of a follow-up call, tools still offered
NextParams(msgs, bp) ==
  [messages |-> msgs, system |-> bp.system,
   tools |-> Get(bp, "tools", "None"), tool_choice |-> [type |-> "auto"]] @@ base_params

\* variant: the closing call still offers the tools
FinalParams_with_tools(msgs, bp) ==
  [messages |-> msgs, system |-> bp.system,
   tools |-> Get(bp, "tools", "None"), tool_choice |-> [type |-> "auto"]] @@ base_params

\* variant: the closing call is made with the bare system prompt
FinalParams_bare_system(msgs, bp) ==
  [messages |-> msgs, system |-> SYSTEM_PROMPT] @@ base_params

\* _get_final_response: the parameters of the closing call, no tools
FinalParams(msgs, bp) ==
  [messages |-> msgs, system |-> bp.system] @@ base_params

\* variant: the round counter is not consulted
should_continue_ignoring_rounds(response, round, rounds_max) ==
  \E i \in 1..Len(response.content) : response.content[i].type = "tool_use"

\* variant: the response's blocks are not consulted
should_continue_ignoring_blocks(response, round, rounds_max) ==
  round < rounds_max

\* _should_continue_tool_calling(response, current_round, max_rounds)
_should_continue_tool_calling(response, round, rounds_max) ==
  IF round >= rounds_max THEN FALSE
  ELSE \E i \in 1..Len(response.content) : response.content[i].type = "tool_use"

\* response.content[0].text: IndexError on an empty content, AttributeError on
\* a block that is no text block
HasText(response) ==
  Len(response.content) > 0 /\ response.content[1].type = "text"

\* "return response.content[0].text": the call returns the text or raises
ReturnText(response) ==
  IF HasText(response)
  THEN pc' = "returned" /\ result' = response.content[1].text
  ELSE pc' = "raised" /\ result' = "None"

\* no generate_response call is on the stack
Idle == pc = "idle"

Init ==
  /\ pc = "idle"
  /\ tools = "None"
  /\ tool_manager = FALSE
  /\ api_params = FirstParams("", "None", "None")
  /\ messages = <<>>
  /\ current_response = NoResponse
  /\ current_round = 0
  /\ block_index = 1
  /\ tool_results = <<>>
  /\ critical_failure = FALSE
  /\ calls = <<>>
  /\ responses = <<>>
  /\ executed = <<>>
  /\ result = "None"
  /\ last_sources = [t \in {"search_course_content"} |-> <<>>]
  /\ model_tool_calls = ToolCalls
  /\ registry = RegisteredTools
  /\ caller_sources = <<>>
  /\ other_query = NoOtherQuery

\* generate_response is called: lines 76-95, up to the first model call
Generate ==
  /\ Idle
  /\ \E query \in Queries, history \in Histories, tls \in ToolsArgs, tm \in BOOLEAN :
       /\ tools' = tls
       /\ tool_manager' = tm
       /\ api_params' = FirstParams(query, history, tls)
       /\ calls' = <<FirstParams(query, history, tls)>>
  /\ pc' = "await_first"
  /\ messages' = <<>>
  /\ current_response' = NoResponse
  /\ current_round' = 0
  /\ block_index' = 1
  /\ tool_results' = <<>>
  /\ critical_failure' = FALSE
  /\ responses' = <<>>
  /\ executed' = <<>>
  /\ result' = "None"
  /\ UNCHANGED <<last_sources, model_tool_calls, registry,
                 caller_sources, other_query>>

\* the top of the while loop for a response that asks for tools, lines 127-132:
\* the assistant turn is appended and the for loop over its blocks starts
StartRound(msgs, response) ==
  /\ messages' = Append(msgs, [role |-> "assistant", content |-> response.content])
  /\ current_response' = response
  /\ block_index' = 1
  /\ tool_results' = <<>>
  /\ critical_failure' = FALSE
  /\ pc' = "exec_tools"

\* "while current_round < max_rounds" reached with `response` as the current
\* response, lines 127 and 154-155: another round starts, or the loop is left
\* and the closing call is made
WhileLoop(msgs, response, round) ==
  IF round < max_rounds
  THEN /\ StartRound(msgs, response)
       /\ UNCHANGED <<result, calls>>
  ELSE /\ calls' = Append(calls, FinalParams(msgs, api_params))
       /\ pc' = "await_final"
       /\ current_response' = response
       /\ messages' = msgs
       /\ UNCHANGED <<block_index, tool_results, critical_failure, result>>

\* variant: the rounds start on a tool_use block instead of the stop reason
NeedsToolRounds_by_blocks(response, tm) ==
  /\ \E i \in 1..Len(response.content) : response.content[i].type = "tool_use"
  /\ tm

\* generate_response, line 98: response.stop_reason == "tool_use" and tool_manager
NeedsToolRounds(response, tm) ==
  response.stop_reason = "tool_use" /\ tm

\* the first model call answers, lines 95-102 (and 123-129 when rounds start)
FirstResponse ==
  /\ pc = "await_first"
  /\ \E r \in Responses(1) :
       /\ responses' = Append(responses, r)
       /\ IF NeedsToolRounds(r, tool_manager)
          THEN /\ WhileLoop(api_params.messages, r, 0)
               /\ current_round' = 0
          ELSE /\ ReturnText(r)
               /\ UNCHANGED <<messages, current_response, current_round, block_index,
                              tool_results, critical_failure, calls>>
  /\ UNCHANGED <<tools, tool_manager, api_params, executed, last_sources,
                 model_tool_calls, registry,
                 caller_sources, other_query>>

\* variant: the exception message is passed on without the failure prefix
ToolResultBlock_unmarked(content_block, r) ==
  [type |-> "tool_result", tool_use_id |-> content_block.id, content |-> r.value]

\* the tool_result appended for a tool_use block, lines 175-191: the tool's text,
\* or the error text when execute_tool raised
ToolResultBlock(content_block, r) ==
  [type |-> "tool_result", tool_use_id |-> content_block.id,
   content |-> IF r.raised THEN "Tool execution failed: " \o r.value ELSE r.value]

\* variant: the latest result is put first
tool_results_prepend(results, block) == <<block>> \o results

\* tool_results.append(...), lines 175 and 185
tool_results_append(results, block) == Append(results, block)

\* one pass of the for loop of _execute_tools_in_response, lines 171-192
ExecuteBlock ==
  /\ pc = "exec_tools"
  /\ block_index <= Len(current_response.content)
  /\ LET content_block == current_response.content[block_index] IN
       IF content_block.type = "tool_use"
       THEN LET r == execute_tool(registry, content_block.name, content_block.input,
                                   last_sources) IN
              /\ executed' = Append(executed, [id |-> content_block.id,
                                               name |-> content_block.name,
                                               input |-> content_block.input,
                                               response |-> Len(responses),
                                               raised |-> r.raised])
              /\ last_sources' = r.last_sources
              /\ tool_results' = tool_results_append(tool_results,
                                                  ToolResultBlock(content_block, r))
              /\ critical_failure' = (critical_failure \/ r.raised)
       ELSE UNCHANGED <<executed, last_sources, tool_results, critical_failure>>
  /\ block_index' = block_index + 1
  /\ UNCHANGED <<pc, tools, tool_manager, api_params, messages, current_response,
                 current_round, calls, responses, result, model_tool_calls, registry,
                 caller_sources, other_query>>

\* "if tool_results: messages.append(...)", lines 139-140 and 271-272
WithResults(msgs, results) ==
  IF Len(results) > 0 THEN Append(msgs, [role |-> "user", content |-> results]) ELSE msgs

\* variant: the round is not counted
NextRound_forgotten(round) == round

\* current_round += 1, line 142
NextRound(round) == round + 1

\* the for loop is over, lines 134-145: a failed round asks for the closing
\* call (_handle_tool_execution_failure), a clean one counts the round and asks
\* for the next response
FinishRound ==
  /\ pc = "exec_tools"
  /\ block_index > Len(current_response.content)
  /\ messages' = WithResults(messages, tool_results)
  /\ IF critical_failure
     THEN /\ calls' = Append(calls, FinalParams(messages', api_params))
          /\ pc' = "await_final"
          /\ UNCHANGED current_round
     ELSE /\ current_round' = NextRound(current_round)
          /\ calls' = Append(calls, NextParams(messages', api_params))
          /\ pc' = "await_next"
  /\ UNCHANGED <<tools, tool_manager, api_params, current_response, block_index,
                 tool_results, critical_failure, responses, executed, result, last_sources,
                 model_tool_calls, registry,
                 caller_sources, other_query>>

\* a follow-up call answers, lines 145-155
NextResponse ==
  /\ pc = "await_next"
  /\ \E r \in Responses(Len(responses) + 1) :
       /\ responses' = Append(responses, r)
       /\ IF ~_should_continue_tool_calling(r, current_round, max_rounds)
          THEN /\ ReturnText(r)
               /\ UNCHANGED <<messages, current_response, block_index, tool_results,
                              critical_failure, calls>>
          ELSE WhileLoop(messages, r, current_round)
  /\ UNCHANGED <<tools, tool_manager, api_params, current_round, executed, last_sources,
                 model_tool_calls, registry,
                 caller_sources, other_query>>

\* the closing call answers, lines 255-256
FinalResponse ==
  /\ pc = "await_final"
  /\ \E r \in Responses(Len(responses) + 1) :
       /\ responses' = Append(responses, r)
       /\ ReturnText(r)
  /\ UNCHANGED <<tools, tool_manager, api_params, messages, current_response,
                 current_round, block_index, tool_results, critical_failure, calls,
                 executed, last_sources, model_tool_calls, registry,
                 caller_sources, other_query>>

\* variant: the exception of a model call is caught and the closing call is
\* tried in its place
ModelCallRaises_caught ==
  /\ pc \in {"await_first", "await_next", "await_final"}
  /\ pc' = "await_final"
  /\ calls' = Append(calls, FinalParams(messages, api_params))
  /\ UNCHANGED <<tools, tool_manager, api_params, messages, current_response,
                 current_round, block_index, tool_results, critical_failure,
                 responses, executed, result, last_sources, model_tool_calls, registry,
          caller_sources, other_query>>

\* client.messages.create raises (network, auth, rate limit): nothing catches it
ModelCallRaises ==
  /\ pc \in {"await_first", "await_next", "await_final"}
  /\ pc' = "raised"
  /\ result' = "None"
  /\ UNCHANGED <<tools, tool_manager, api_params, messages, current_response,
                 current_round, block_index, tool_results, critical_failure, calls,
                 responses, executed, last_sources, model_tool_calls, registry,
                 caller_sources, other_query>>

\* generate_response has returned or raised: its frame is gone, the caller goes
\* on; only the tools' slots keep what the call left in them
CallEnds ==
  /\ pc \in {"returned", "raised"}
  /\ pc' = "idle"
  /\ tools' = "None"
  /\ tool_manager' = FALSE
  /\ api_params' = FirstParams("", "None", "None")
  /\ messages' = <<>>
  /\ current_response' = NoResponse
  /\ current_round' = 0
  /\ block_index' = 1
  /\ tool_results' = <<>>
  /\ critical_failure' = FALSE
  /\ calls' = <<>>
  /\ responses' = <<>>
  /\ executed' = <<>>
  /\ result' = "None"
  /\ UNCHANGED <<last_sources, model_tool_calls, registry,
                 caller_sources, other_query>>

\* between two queries the caller clears the slots: ToolManager.reset_sources
ResetSources ==
  /\ Idle
  /\ last_sources' = reset_sources(registry, last_sources)
  /\ UNCHANGED <<pc, tools, tool_manager, api_params, messages, current_response,
                 current_round, block_index, tool_results, critical_failure, calls,
                 responses, executed, result, model_tool_calls, registry,
                 caller_sources, other_query>>

\* the steps of a running call: each returns, given that the model call or
\* the tool execution it waits for returns
Step ==
  \/ FirstResponse
  \/ ExecuteBlock
  \/ FinishRound
  \/ NextResponse
  \/ FinalResponse
  \/ ModelCallRaises

Next ==
  \/ Generate
  \/ FirstResponse
  \/ ExecuteBlock
  \/ FinishRound
  \/ NextResponse
  \/ FinalResponse
  \/ ModelCallRaises
  \/ CallEnds
  \/ ResetSources

Spec == Init /\ [][Next]_vars

\* the code is sequential: a call that was started keeps running
FairSpec == Spec /\ WF_vars(Step)

(***************************************************************************)
(* The two tools called directly, one call after the other, as the tests   *)
(* of the tools do: every call is logged with the slots it found.          *)
(***************************************************************************)
SearchQueries == {"q_hit", "q_course", "q_many", "q_err", "q_none"}
CourseNames == {"MCP"}
LessonNumbers == {0, 5}

\* the keyword arguments CourseSearchTool.execute is called with
SearchInputs ==
  {[query |-> q] : q \in SearchQueries}
    \cup {[query |-> q, course_name |-> c] : q \in SearchQueries, c \in CourseNames}
    \cup {[query |-> q, lesson_number |-> n] : q \in SearchQueries, n \in LessonNumbers}
    \cup {[query |-> q, course_name |-> c, lesson_number |-> n] :
            q \in SearchQueries, c \in CourseNames, n \in LessonNumbers}

\* the keyword arguments CourseOutlineTool.execute is called with
OutlineInputs ==
  {[course_title |-> t] : t \in {"mcp", "rag", "chroma", "ghost", "broken", "odd", "locked", "down", "zzz"}}

ToolNames == {"search_course_content", "get_course_outline"}

ToolInit ==
  /\ pc = "idle"
  /\ tools = "None"
  /\ tool_manager = FALSE
  /\ api_params = FirstParams("", "None", "None")
  /\ messages = <<>>
  /\ current_response = NoResponse
  /\ current_round = 0
  /\ block_index = 1
  /\ tool_results = <<>>
  /\ critical_failure = FALSE
  /\ calls = <<>>
  /\ responses = <<>>
  /\ executed = <<>>
  /\ result = "None"
  /\ last_sources = [t \in ToolNames |-> <<>>]
  /\ model_tool_calls = {}
  /\ registry = register_tool(RegisteredTools, "get_course_outline").tools
  /\ caller_sources = <<>>
  /\ other_query = NoOtherQuery

\* a tool's execute was called with `input`, found the slots as they are and
\* gave r: the call is the one logged, with the slots it found and the slots
\* it left, its text the result
ToolCalled(name, input, r) ==
  /\ last_sources' = [last_sources EXCEPT ![name] = r.last_sources]
  /\ executed' = <<[name |-> name, input |-> input, raised |-> r.raised,
                    before |-> last_sources, after |-> last_sources']>>
  /\ result' = r.value

\* CourseSearchTool.execute(**input)
SearchExecute ==
  /\ Idle
  /\ \E input \in SearchInputs :
       ToolCalled("search_course_content", input,
                  CourseSearchTool_execute(input, last_sources["search_course_content"]))
  /\ UNCHANGED <<pc, tools, tool_manager, api_params, messages, current_response,
                 current_round, block_index, tool_results, critical_failure, calls,
                 responses, model_tool_calls, registry,
                 caller_sources, other_query>>

\* CourseOutlineTool.execute(**input)
OutlineExecute ==
  /\ Idle
  /\ \E input \in OutlineInputs :
       ToolCalled("get_course_outline", input,
                  CourseOutlineTool_execute(input, last_sources["get_course_outline"]))
  /\ UNCHANGED <<pc, tools, tool_manager, api_params, messages, current_response,
                 current_round, block_index, tool_results, critical_failure, calls,
                 responses, model_tool_calls, registry,
                 caller_sources, other_query>>

ToolNext ==
  \/ SearchExecute
  \/ OutlineExecute
  \/ ResetSources

ToolSpec == ToolInit /\ [][ToolNext]_vars

(***************************************************************************)
(* The ToolManager's methods called one after the other (ManagerSpec).     *)
(* `executed` holds the call made last: the method, its arguments, whether *)
(* it raised, the slots and the registry it found, the slots it left, the  *)
(* method called before it, the tools registered so far, in order, and the *)
(* tool whose last_sources the caller's list is (get_last_sources returns  *)
(* the tool's own list object, not a copy).                                *)
(***************************************************************************)
\* The largest number of tools registered in a run.
MaxRegistrations == 3

\* the names and arguments execute_tool is called with
ManagerToolNames == {"search_course_content", "get_course_outline", "unknown_tool"}
ManagerInputs == {[query |-> "q_hit"], [query |-> "q_none"], [course_title |-> "mcp"]}

\* ToolManager(): self.tools = {}; the two tools of the system exist, their
\* slots empty
ManagerInit ==
  /\ pc = "idle"
  /\ tools = "None"
  /\ tool_manager = FALSE
  /\ api_params = FirstParams("", "None", "None")
  /\ messages = <<>>
  /\ current_response = NoResponse
  /\ current_round = 0
  /\ block_index = 1
  /\ tool_results = <<>>
  /\ critical_failure = FALSE
  /\ calls = <<>>
  /\ responses = <<>>
  /\ executed = <<>>
  /\ result = "None"
  /\ last_sources = [t \in ToolNames |-> <<>>]
  /\ model_tool_calls = {}
  /\ registry = <<>>
  /\ caller_sources = <<>>
  /\ other_query = NoOtherQuery

\* the tools registered so far, and the method called last
Registrations == IF Len(executed) = 0 THEN <<>> ELSE executed[1].history
LastMethod == IF Len(executed) = 0 THEN "None" ELSE executed[1].op

\* the caller's list and the tool whose last_sources it is
Caller == [list |-> caller_sources,
           alias |-> IF Len(executed) = 0 THEN "None" ELSE executed[1].alias]

\* the entry of the log for a call of `op`
ManagerCalled(op, tool, name, input, raised, after, history, alias) ==
  executed' = <<[op |-> op, tool |-> tool, name |-> name, input |-> input,
                 raised |-> raised, before |-> last_sources, after |-> after,
                 tools_before |-> registry, previous |-> LastMethod,
                 history |-> history, alias |-> alias]>>

\* tool_manager.register_tool(tool)
RegisterTool ==
  /\ Idle
  /\ Len(Registrations) < MaxRegistrations
  /\ \E tool \in ToolObjects :
       LET r == register_tool(registry, tool) IN
         /\ registry' = r.tools
         /\ result' = r.value
         /\ ManagerCalled("register_tool", tool, "None", "None", r.raised, last_sources,
                          IF r.raised THEN Registrations ELSE Append(Registrations, tool),
                          Caller.alias)
  /\ UNCHANGED <<pc, tools, tool_manager, api_params, messages, current_response,
                 current_round, block_index, tool_results, critical_failure, calls,
                 responses, last_sources, model_tool_calls, caller_sources, other_query>>

\* tool_manager.get_tool_definitions()
GetToolDefinitions ==
  /\ Idle
  /\ result' = get_tool_definitions(registry)
  /\ ManagerCalled("get_tool_definitions", "None", "None", "None", FALSE, last_sources,
                   Registrations, Caller.alias)
  /\ UNCHANGED <<pc, tools, tool_manager, api_params, messages, current_response,
                 current_round, block_index, tool_results, critical_failure, calls,
                 responses, last_sources, model_tool_calls, registry, caller_sources,
                 other_query>>

\* tool_manager.execute_tool(name, **input)
ManagerExecute ==
  /\ Idle
  /\ \E name \in ManagerToolNames, input \in ManagerInputs :
       LET r == execute_tool(registry, name, input, last_sources)
           \* the tool whose slot the call assigned (an assignment of equal
           \* elements shows to no holder and is not told apart)
           assigned == {t \in DOMAIN last_sources : r.last_sources[t] # last_sources[t]}
           caller == IF Caller.alias \in assigned
                     THEN caller_after_assignment(Caller, Caller.alias,
                                                  r.last_sources[Caller.alias])
                     ELSE Caller
       IN
         /\ last_sources' = r.last_sources
         /\ result' = r.value
         /\ caller_sources' = caller.list
         /\ ManagerCalled("execute_tool", "None", name, input, r.raised, r.last_sources,
                          Registrations, caller.alias)
  /\ UNCHANGED <<pc, tools, tool_manager, api_params, messages, current_response,
                 current_round, block_index, tool_results, critical_failure, calls,
                 responses, model_tool_calls, registry, other_query>>

\* sources = tool_manager.get_last_sources()
GetLastSources ==
  /\ Idle
  /\ caller_sources' = get_last_sources(registry, last_sources)
  /\ ManagerCalled("get_last_sources", "None", "None", "None", FALSE, last_sources,
                   Registrations, get_last_sources_owner(registry, last_sources))
  /\ UNCHANGED <<pc, tools, tool_manager, api_params, messages, current_response,
                 current_round, block_index, tool_results, critical_failure, calls,
                 responses, result, last_sources, model_tool_calls, registry,
                 other_query>>

\* tool_manager.reset_sources()
ManagerReset ==
  /\ Idle
  /\ last_sources' = reset_sources(registry, last_sources)
  /\ LET \* the tools whose slot line 263 assigns
         assigned == {registry[i].value : i \in 1..Len(registry)} \cap DOMAIN last_sources
         caller == IF Caller.alias \in assigned
                   THEN caller_after_assignment(Caller, Caller.alias, <<>>)
                   ELSE Caller
     IN /\ caller_sources' = caller.list
        /\ ManagerCalled("reset_sources", "None", "None", "None", FALSE,
                         reset_sources(registry, last_sources), Registrations,
                         caller.alias)
  /\ UNCHANGED <<pc, tools, tool_manager, api_params, messages, current_response,
                 current_round, block_index, tool_results, critical_failure, calls,
                 responses, result, model_tool_calls, registry, other_query>>

ManagerNext ==
  \/ RegisterTool
  \/ GetToolDefinitions
  \/ ManagerExecute
  \/ GetLastSources
  \/ ManagerReset

ManagerSpec == ManagerInit /\ [][ManagerNext]_vars

(***************************************************************************)
(* The caller's cycle, one query at a time (QuerySpec): generate_response, *)
(* then get_last_sources, then reset_sources, as in                         *)
(* test_tool_manager_lifecycle.                                             *)
(***************************************************************************)
\* sources = tool_manager.get_last_sources(), once generate_response is over
QueryGetsSources ==
  /\ pc \in {"returned", "raised"}
  /\ pc' = "got_sources"
  /\ caller_sources' = get_last_sources(registry, last_sources)
  /\ UNCHANGED <<tools, tool_manager, api_params, messages, current_response,
                 current_round, block_index, tool_results, critical_failure, calls,
                 responses, executed, result, last_sources, model_tool_calls, registry,
                 other_query>>

\* tool_manager.reset_sources(), after which the query is over: the frame of
\* generate_response is gone, the caller keeps the list it got
QueryOver ==
  /\ pc = "got_sources"
  /\ pc' = "idle"
  /\ last_sources' = reset_sources(registry, last_sources)
  /\ tools' = "None"
  /\ tool_manager' = FALSE
  /\ api_params' = FirstParams("", "None", "None")
  /\ messages' = <<>>
  /\ current_response' = NoResponse
  /\ current_round' = 0
  /\ block_index' = 1
  /\ tool_results' = <<>>
  /\ critical_failure' = FALSE
  /\ calls' = <<>>
  /\ responses' = <<>>
  /\ executed' = <<>>
  /\ result' = "None"

QueryResets ==
  /\ QueryOver
  /\ UNCHANGED <<model_tool_calls, registry, caller_sources, other_query>>

QueryNext ==
  \/ Generate
  \/ FirstResponse
  \/ ExecuteBlock
  \/ FinishRound
  \/ NextResponse
  \/ FinalResponse
  \/ ModelCallRaises
  \/ QueryGetsSources
  \/ QueryResets

QuerySpec == Init /\ [][QueryNext]_vars

(***************************************************************************)
(* Two queries on one ToolManager (SharedSpec): the query above, and a     *)
(* second one on another thread, of which only what it does to the         *)
(* ToolManager is kept: the tool executions of its generate_response, its  *)
(* get_last_sources, its reset_sources. other_query.acted tells whether it *)
(* executed a tool or reset the slots since the first query last reset.    *)
(***************************************************************************)
\* the tool call the second query's responses ask for
OtherToolCall == [name |-> "search_course_content", input |-> [query |-> "q_course"]]

\* both queries on the ToolManager of the fixture, the slots empty
SharedInit ==
  /\ pc = "idle"
  /\ tools = "None"
  /\ tool_manager = FALSE
  /\ api_params = FirstParams("", "None", "None")
  /\ messages = <<>>
  /\ current_response = NoResponse
  /\ current_round = 0
  /\ block_index = 1
  /\ tool_results = <<>>
  /\ critical_failure = FALSE
  /\ calls = <<>>
  /\ responses = <<>>
  /\ executed = <<>>
  /\ result = "None"
  /\ last_sources = [t \in {"search_course_content"} |-> <<>>]
  /\ model_tool_calls = ToolCalls
  /\ registry = RegisteredTools
  /\ caller_sources = <<>>
  /\ other_query = NoOtherQuery

\* the frame of the first query
frame == <<pc, tools, tool_manager, api_params, messages, current_response,
           current_round, block_index, tool_results, critical_failure, calls,
           responses, executed, result>>

\* the second query calls generate_response
OtherStarts ==
  /\ other_query.pc = "idle"
  /\ other_query' = [other_query EXCEPT !.pc = "running"]
  /\ UNCHANGED <<frame, last_sources, model_tool_calls, registry, caller_sources>>

\* the second query's generate_response executes a tool call, ai_generator.py
\* line 174
OtherExecutes ==
  /\ other_query.pc = "running"
  /\ last_sources' = execute_tool(registry, OtherToolCall.name, OtherToolCall.input,
                                  last_sources).last_sources
  /\ other_query' = [other_query EXCEPT !.acted = TRUE]
  /\ UNCHANGED <<frame, model_tool_calls, registry, caller_sources>>

\* the second query's generate_response is over and its caller calls
\* get_last_sources
OtherGetsSources ==
  /\ other_query.pc = "running"
  /\ other_query' = [other_query EXCEPT !.pc = "got_sources",
                                        !.sources = get_last_sources(registry, last_sources)]
  /\ UNCHANGED <<frame, last_sources, model_tool_calls, registry, caller_sources>>

\* the second query calls reset_sources and is over
OtherResets ==
  /\ other_query.pc = "got_sources"
  /\ last_sources' = reset_sources(registry, last_sources)
  /\ other_query' = [pc |-> "idle", sources |-> <<>>, acted |-> TRUE]
  /\ UNCHANGED <<frame, model_tool_calls, registry, caller_sources>>

\* the first query calls reset_sources and is over, its list handed on
SharedQueryResets ==
  /\ QueryOver
  /\ caller_sources' = <<>>
  /\ other_query' = [other_query EXCEPT !.acted = FALSE]
  /\ UNCHANGED <<model_tool_calls, registry>>

SharedNext ==
  \/ Generate
  \/ FirstResponse
  \/ ExecuteBlock
  \/ FinishRound
  \/ NextResponse
  \/ FinalResponse
  \/ ModelCallRaises
  \/ QueryGetsSources
  \/ SharedQueryResets
  \/ OtherStarts
  \/ OtherExecutes
  \/ OtherGetsSources
  \/ OtherResets

SharedSpec == SharedInit /\ [][SharedNext]_vars

(***************************************************************************)
(* The runs of generate_response in which the tools answer with error      *)
(* texts (SoftSpec): both tools registered, the model asking for a tool    *)
(* that is not registered, a search the index answers with an error, an    *)
(* outline of a course that does not resolve, and a call that raises.      *)
(***************************************************************************)
UnknownTool == [type |-> "tool_use", name |-> "unknown_tool",
                input |-> [query |-> "q_hit"]]
SearchErr == [type |-> "tool_use", name |-> "search_course_content",
              input |-> [query |-> "q_err"]]
OutlineMissing == [type |-> "tool_use", name |-> "get_course_outline",
                   input |-> [course_title |-> "zzz"]]
SoftCalls == {UnknownTool, SearchErr, OutlineMissing, SearchBad}

SoftInit ==
  /\ pc = "idle"
  /\ tools = "None"
  /\ tool_manager = FALSE
  /\ api_params = FirstParams("", "None", "None")
  /\ messages = <<>>
  /\ current_response = NoResponse
  /\ current_round = 0
  /\ block_index = 1
  /\ tool_results = <<>>
  /\ critical_failure = FALSE
  /\ calls = <<>>
  /\ responses = <<>>
  /\ executed = <<>>
  /\ result = "None"
  /\ last_sources = [t \in ToolNames |-> <<>>]
  /\ model_tool_calls = SoftCalls
  /\ registry = register_tool(RegisteredTools, "get_course_outline").tools
  /\ caller_sources = <<>>
  /\ other_query = NoOtherQuery

SoftSpec == SoftInit /\ [][Next]_vars

(***************************************************************************)
(* Two generate_response calls on one AIGenerator (ConcurrentSpec): the    *)
(* call above, and a second call whose frame (its messages, its round      *)
(* counter, the requests it made) is kept in other_query.  Both read       *)
(* base_params and dispatch through the same ToolManager; the second       *)
(* call's model asks for one search per round or answers with a text.      *)
(***************************************************************************)
OtherQuery == "Outline of MCP?"

\* the n-th response of the second call's model: one tool_use block
OtherAsksTool(n) ==
  [stop_reason |-> "tool_use",
   content |-> <<[type |-> "tool_use", id |-> "toolu_other_" \o ToStr(n),
                  name |-> OtherToolCall.name, input |-> OtherToolCall.input]>>]

\* the n-th response of the second call's model: a text
OtherAnswers(n) ==
  [stop_reason |-> "end_turn",
   content |-> <<[type |-> "text", text |-> "other_text_" \o ToStr(n)]>>]

\* no second call is on the stack
OtherIdle == [pc |-> "idle", current_round |-> 0, messages |-> <<>>,
              calls |-> <<>>, result |-> "None"]

ConcurrentInit ==
  /\ pc = "idle"
  /\ tools = "None"
  /\ tool_manager = FALSE
  /\ api_params = FirstParams("", "None", "None")
  /\ messages = <<>>
  /\ current_response = NoResponse
  /\ current_round = 0
  /\ block_index = 1
  /\ tool_results = <<>>
  /\ critical_failure = FALSE
  /\ calls = <<>>
  /\ responses = <<>>
  /\ executed = <<>>
  /\ result = "None"
  /\ last_sources = [t \in {"search_course_content"} |-> <<>>]
  /\ model_tool_calls = ToolCalls
  /\ registry = RegisteredTools
  /\ caller_sources = <<>>
  /\ other_query = OtherIdle

\* the second call starts: lines 76-95, its own api_params and first request
OtherGenerate ==
  /\ other_query.pc = "idle"
  /\ LET first == FirstParams(OtherQuery, "None", ToolDefs) IN
       other_query' = [pc |-> "await", current_round |-> 0,
                       messages |-> first.messages, calls |-> <<first>>,
                       result |-> "None"]
  /\ UNCHANGED <<frame, last_sources, model_tool_calls, registry, caller_sources>>

\* does the second call go through a round on `response`: line 98 for the
\* first response, line 148 for the later ones
OtherContinues(response) ==
  IF Len(other_query.calls) = 1
  THEN NeedsToolRounds(response, TRUE)
  ELSE _should_continue_tool_calling(response, other_query.current_round, max_rounds)

\* a round of the second call, lines 127-145: the assistant turn and the tool
\* result are appended to its own messages, its own counter is incremented
OtherRound ==
  /\ other_query.pc = "await"
  /\ LET response == OtherAsksTool(Len(other_query.calls))
         content_block == response.content[1]
         r == execute_tool(registry, content_block.name, content_block.input,
                           last_sources)
         msgs == WithResults(Append(other_query.messages,
                                    [role |-> "assistant", content |-> response.content]),
                             <<ToolResultBlock(content_block, r)>>)
     IN /\ OtherContinues(response)
        /\ last_sources' = r.last_sources
        /\ other_query' = [other_query EXCEPT
                             !.messages = msgs,
                             !.current_round = NextRound(other_query.current_round),
                             !.calls = Append(other_query.calls,
                                              NextParams(msgs, other_query.calls[1]))]
  /\ UNCHANGED <<frame, model_tool_calls, registry, caller_sources>>

\* the second call returns the first block's text of a response it does not
\* go through a round on, lines 102 and 149, or raises on a block without text
OtherReturns ==
  /\ other_query.pc = "await"
  /\ \E response \in {OtherAsksTool(Len(other_query.calls)),
                      OtherAnswers(Len(other_query.calls))} :
       /\ ~OtherContinues(response)
       /\ other_query' = [other_query EXCEPT
                            !.pc = IF HasText(response) THEN "returned" ELSE "raised",
                            !.result = IF HasText(response)
                                       THEN response.content[1].text ELSE "None"]
  /\ UNCHANGED <<frame, last_sources, model_tool_calls, registry, caller_sources>>

\* the second call is over, its frame is gone
OtherEnds ==
  /\ other_query.pc \in {"returned", "raised"}
  /\ other_query' = OtherIdle
  /\ UNCHANGED <<frame, last_sources, model_tool_calls, registry, caller_sources>>

ConcurrentNext ==
  \/ Generate
  \/ FirstResponse
  \/ ExecuteBlock
  \/ FinishRound
  \/ NextResponse
  \/ FinalResponse
  \/ ModelCallRaises
  \/ CallEnds
  \/ OtherGenerate
  \/ OtherRound
  \/ OtherReturns
  \/ OtherEnds

ConcurrentSpec == ConcurrentInit /\ [][ConcurrentNext]_vars

(***************************************************************************)
(* Vocabulary of the claims.                                               *)
(***************************************************************************)
Finished == pc \in {"returned", "raised"}
Running == pc \in {"await_first", "exec_tools", "await_next", "await_final"}

\* the tool_use blocks of a response, in order
RECURSIVE ToolBlocksOf(_)
ToolBlocksOf(content) ==
  IF Len(content) = 0 THEN <<>>
  ELSE IF content[1].type = "tool_use"
       THEN <<content[1]>> \o ToolBlocksOf(Tail(content))
       ELSE ToolBlocksOf(Tail(content))

ToolIds(response) ==
  LET blocks == ToolBlocksOf(response.content)
  IN [i \in 1..Len(blocks) |-> blocks[i].id]

\* the response asks for tools / closes the conversation
RequestsTool(response) ==
  response.stop_reason = "tool_use" /\ Len(ToolIds(response)) > 0
RequestsNoTool(response) ==
  response.stop_reason # "tool_use" /\ Len(ToolIds(response)) = 0

\* the rounds started so far: one assistant turn is appended per round
RoundsStarted ==
  Cardinality({i \in 1..Len(messages) : messages[i].role = "assistant"})

SomeToolRaised == \E i \in 1..Len(executed) : executed[i].raised
NoToolRaised == ~SomeToolRaised

ExecutedIds == [i \in 1..Len(executed) |-> executed[i].id]

\* the request carries tool definitions
OffersTools(request) == "tools" \in DOMAIN request /\ Truthy(request.tools)

\* C1: in one generate call there are never more than 2 tool-execution rounds:
\* the round counter starts at 0 and stays within 0..2, a completed round adds
\* exactly one to it and nothing else changes it, and no tool is executed once
\* it equals 2.
C1_RoundsBounded ==
  [][/\ (pc' = "await_first" => current_round' = 0)
     /\ current_round' \in 0..2
     /\ RoundsStarted' <= 2
     /\ ((pc = "exec_tools" /\ pc' = "await_next") => current_round' = current_round + 1)
     /\ (~(pc = "exec_tools" /\ pc' = "await_next") /\ pc' \notin {"idle", "await_first"}
           => current_round' = current_round)
     /\ (executed' # executed /\ pc = "exec_tools" => current_round < 2)
    ]_vars

\* C1's case: two rounds were run and a response asking for a third was refused
C1_Witness ==
  /\ Finished
  /\ current_round = 2
  /\ RoundsStarted = 2
  /\ Len(responses) = 3
  /\ RequestsTool(responses[3])
  /\ Len(executed) >= 2

\* the response whose round had a tool call raise
FailedRound ==
  executed[CHOOSE i \in 1..Len(executed) : executed[i].raised].response

\* the number of tool_use blocks of the first k responses
RECURSIVE ToolBlocksUpTo(_)
ToolBlocksUpTo(k) ==
  IF k = 0 THEN 0 ELSE Len(ToolIds(responses[k])) + ToolBlocksUpTo(k - 1)

\* C2: once a tool call of a round has raised and the round's blocks are done,
\* the round's results (the error text among them) are the last entry of the
\* conversation, exactly one more model call was issued, on that conversation
\* and without tools or tool choice, no further round and no further tool
\* execution follows, and the text returned is that call's; a failure in the
\* k-th round gives k + 1 model calls (2 for round 1).
C2_FailureClosesRun ==
  (SomeToolRaised /\ pc # "exec_tools") =>
    LET k == FailedRound
        last == messages[Len(messages)]
    IN /\ pc \in {"await_final", "returned", "raised"}
       /\ k \in {1, 2}
       /\ Len(calls) = k + 1
       /\ "tools" \notin DOMAIN calls[k + 1]
       /\ "tool_choice" \notin DOMAIN calls[k + 1]
       /\ calls[k + 1].messages = messages
       /\ last.role = "user"
       /\ Len(last.content) = Len(ToolIds(responses[k]))
       /\ \A j \in 1..Len(last.content) :
            /\ last.content[j].tool_use_id = ToolIds(responses[k])[j]
            /\ last.content[j].type = "tool_result"
       /\ \E j \in 1..Len(last.content) :
            last.content[j].content = "Tool execution failed: execute() got unexpected arguments"
       /\ RoundsStarted = k
       /\ Len(executed) = ToolBlocksUpTo(k)
       /\ \A i \in 1..Len(executed) : executed[i].response <= k
       /\ Len(responses) <= k + 1
       /\ (pc = "returned" =>
             /\ Len(responses) = k + 1
             /\ result = responses[k + 1].content[1].text)

\* C2's case: a tool call raised in round 1, its sibling was still executed,
\* and the call returned after 2 model calls
C2_Witness ==
  /\ pc = "returned"
  /\ Len(executed) = 2
  /\ executed[1].raised
  /\ executed[2].response = 1
  /\ Len(calls) = 2

\* the run is over and no model call raised
Completed == Finished /\ Len(responses) = Len(calls)

\* tools were offered and can be executed
ToolsInPlay == tools = ToolDefs /\ tool_manager

\* every response given to a request that offered tools asked for a tool
AnsweredWithTools ==
  \A j \in 1..Len(responses) : OffersTools(calls[j]) => RequestsTool(responses[j])

\* C3 (as claimed): when the model asks for a tool whenever it is offered tools,
\* and no tool fails, a call that returned has made exactly 2 rounds and then
\* one tool-free model call: 4 model calls, the last one without tools.
C3_FourCallsWhenAlwaysTools ==
  (pc = "returned" /\ ToolsInPlay /\ AnsweredWithTools /\ NoToolRaised) =>
    /\ RoundsStarted = 2
    /\ Len(calls) = 4
    /\ ~OffersTools(calls[Len(calls)])

\* C4 (as claimed): when the run stops because the counter reached max_rounds
\* while the model still asks for a tool, the last model call carries no tools
\* parameter and a returned text is the text of the answer to that call.
C4_LastCallWithoutTools ==
  (pc = "returned" /\ current_round = 2 /\ Len(responses) >= 3
     /\ RequestsTool(responses[3])) =>
    /\ "tools" \notin DOMAIN calls[Len(calls)]
    /\ result = responses[Len(calls)].content[1].text

\* every response asked for exactly one tool
OneToolEach ==
  \A j \in 1..Len(responses) :
    responses[j].stop_reason = "tool_use" /\ Len(ToolIds(responses[j])) = 1

\* C5: with a tool manager, when every response asks for one tool and no tool
\* fails, a completed run has made exactly 3 model calls and executed exactly 2
\* tools, those of the first two responses; the tool the third response asks
\* for is never executed.
C5_ThreeCallsTwoTools ==
  (Completed /\ tool_manager /\ OneToolEach /\ NoToolRaised) =>
    /\ Len(calls) = 3
    /\ Len(executed) = 2
    /\ ExecutedIds = ToolIds(responses[1]) \o ToolIds(responses[2])
    /\ \A i \in 1..Len(executed) : executed[i].id # ToolIds(responses[3])[1]

\* C5's case: three responses each asking for one tool, two tools executed
C5_Witness ==
  /\ Completed
  /\ tool_manager
  /\ OneToolEach
  /\ Len(responses) = 3
  /\ Len(executed) = 2
  /\ NoToolRaised

\* what is left of a running call, as a number every step of the call lowers:
\* the rounds not yet counted weigh most, then the stage within the round, then
\* the blocks of the current response still to be processed
Remaining ==
  CASE pc = "await_first" -> 1000
    [] pc = "exec_tools" ->
         (2 - current_round) * 100 + 10 + (Len(current_response.content) + 1 - block_index)
    [] pc = "await_next" -> (2 - current_round) * 100 + 50
    [] pc = "await_final" -> 5
    [] OTHER -> 0

\* C6: a generate call ends (returns or raises) after finitely many steps,
\* whatever the model answers and whatever the tools do, also when a tool
\* raises every time: every step of a running call lowers a natural number,
\* and a running call always reaches its end.
C6_Terminates ==
  /\ [][Running => (Remaining' < Remaining /\ Remaining' >= 0)]_vars
  /\ (Running ~> Finished)

\* C6's case: a call in which the tool raised in both blocks of a round has ended
C6_Witness ==
  /\ Finished
  /\ Len(executed) = 2
  /\ executed[1].raised
  /\ executed[2].raised

\* the tool_use blocks the for loop has gone past in the current response
BlocksDone ==
  ToolBlocksOf(SubSeq(current_response.content, 1, block_index - 1))

\* the executions made for the current response
ExecutedThisRound ==
  SelectSeq(executed, LAMBDA e : e.response = Len(responses))

\* C7: within a round every tool_use block the loop has gone past was executed
\* exactly once, in order, also after an earlier block raised: the result list
\* has exactly one entry per such block, carrying the block's id and either the
\* text the tool returned or 'Tool execution failed: <exception message>'.
C7_EveryBlockOnce ==
  pc = "exec_tools" =>
    /\ Len(tool_results) = Len(BlocksDone)
    /\ Len(ExecutedThisRound) = Len(BlocksDone)
    /\ \A j \in 1..Len(BlocksDone) :
         /\ ExecutedThisRound[j].id = BlocksDone[j].id
         /\ ExecutedThisRound[j].raised = ("query" \notin DOMAIN BlocksDone[j].input)
         /\ tool_results[j].tool_use_id = BlocksDone[j].id
         /\ tool_results[j].content =
              IF ExecutedThisRound[j].raised
              THEN "Tool execution failed: execute() got unexpected arguments"
              ELSE "[MCP - Lesson 2]\ndoc A"
    /\ critical_failure = (\E j \in 1..Len(ExecutedThisRound) : ExecutedThisRound[j].raised)

\* C7's case: the first block of a round raised and the second was still
\* executed and returned
C7_Witness ==
  /\ pc = "exec_tools"
  /\ block_index = 3
  /\ Len(ExecutedThisRound) = 2
  /\ ExecutedThisRound[1].raised
  /\ ~ExecutedThisRound[2].raised
  /\ Len(tool_results) = 2

\* C8: when the first response's stop reason is not tool use, the step that
\* receives it ends the call after that one model call, with no tool executed
\* and every last_sources slot as it was when generate was called (starting the
\* call does not touch the slots either), and the text returned is that
\* response's first text block; tools and a tool manager being supplied changes
\* nothing.
C8_DirectAnswer ==
  [][/\ (pc' = "await_first" => last_sources' = last_sources)
     /\ (pc = "await_first" /\ Len(responses') = 1
           /\ responses'[1].stop_reason # "tool_use") =>
          /\ Finished'
          /\ Len(calls') = 1
          /\ executed' = <<>>
          /\ last_sources' = last_sources
          /\ (HasText(responses'[1]) =>
                pc' = "returned" /\ result' = responses'[1].content[1].text)
    ]_vars

\* C8's case: tools and a tool manager were supplied, sources of an earlier
\* query are still in the slot, and the first response ends the turn although
\* it holds a tool_use block
C8_Witness ==
  /\ pc = "returned"
  /\ tools = ToolDefs
  /\ tool_manager
  /\ Len(calls) = 1
  /\ responses[1].stop_reason = "end_turn"
  /\ Len(ToolIds(responses[1])) = 1
  /\ Len(last_sources["search_course_content"]) = 1

\* C9 (as claimed): when no tool definitions are supplied, a call that has
\* returned made exactly one model call, with neither tools nor tool choice,
\* and returned the first response's text, whatever that response and the
\* other arguments are.
C9_NoToolsOneCall ==
  (~Truthy(tools) /\ pc = "returned") =>
    /\ Len(calls) = 1
    /\ "tools" \notin DOMAIN calls[1]
    /\ "tool_choice" \notin DOMAIN calls[1]
    /\ result = responses[1].content[1].text

\* C9 (amended): when no tool definitions are supplied, the first model call
\* carries neither tools nor tool choice; and unless a tool manager was passed
\* and the first response's stop reason is tool use, that call is the only one,
\* no tool is executed and the response's first text block is returned.
C9_NoToolsAmended ==
  (~Truthy(tools) /\ Len(calls) >= 1) =>
    /\ "tools" \notin DOMAIN calls[1]
    /\ "tool_choice" \notin DOMAIN calls[1]
    /\ (Len(responses) >= 1 /\ ~(responses[1].stop_reason = "tool_use" /\ tool_manager)) =>
         /\ Finished
         /\ Len(calls) = 1
         /\ executed = <<>>
         /\ (HasText(responses[1]) =>
               pc = "returned" /\ result = responses[1].content[1].text)

\* C9's case: an empty list of tool definitions and a tool manager were passed,
\* and the call returned after one model call
C9_Witness ==
  /\ tools = "[]"
  /\ tool_manager
  /\ pc = "returned"
  /\ Len(calls) = 1
  /\ "tools" \notin DOMAIN calls[1]

\* the ids of the tool_use blocks of the first k responses, in order
RECURSIVE ToolIdsUpTo(_)
ToolIdsUpTo(k) ==
  IF k = 0 THEN <<>> ELSE ToolIdsUpTo(k - 1) \o ToolIds(responses[k])

\* the tool_use blocks of the first k responses, in order
RECURSIVE ToolBlocksOfFirst(_)
ToolBlocksOfFirst(k) ==
  IF k = 0 THEN <<>> ELSE ToolBlocksOfFirst(k - 1) \o ToolBlocksOf(responses[k].content)

\* C10: with a tool manager, when the first k responses (k = 1 or 2) ask for
\* tools, no tool fails and response k + 1 asks for none, the call is over after
\* exactly k + 1 model calls, it executed exactly the tool calls of those k
\* responses (name and arguments), round 1's before round 2's and each round's
\* in request order, and the text returned is that of response k + 1.
C10_EarlyTermination ==
  \A k \in {1, 2} :
    (/\ tool_manager
     /\ Len(responses) >= k + 1
     /\ \A j \in 1..k : RequestsTool(responses[j])
     /\ RequestsNoTool(responses[k + 1])
     /\ NoToolRaised) =>
      /\ Finished
      /\ Len(calls) = k + 1
      /\ Len(responses) = k + 1
      /\ ExecutedIds = ToolIdsUpTo(k)
      /\ \A i \in 1..Len(executed) :
           /\ executed[i].name = ToolBlocksOfFirst(k)[i].name
           /\ executed[i].input = ToolBlocksOfFirst(k)[i].input
      /\ (HasText(responses[k + 1]) =>
            pc = "returned" /\ result = responses[k + 1].content[1].text)

\* C10's case: two rounds, the first with two tool calls, then a closing text
C10_Witness ==
  /\ pc = "returned"
  /\ tool_manager
  /\ Len(responses) = 3
  /\ RequestsTool(responses[1])
  /\ RequestsTool(responses[2])
  /\ RequestsNoTool(responses[3])
  /\ Len(ToolIds(responses[1])) = 2
  /\ Len(executed) = 3
  /\ result = "text_3_1"

\* the last entry of the conversation is the user turn holding one tool_result
\* per tool_use block of the response, in order and under the block's id
BatchAppended(response) ==
  LET last == messages[Len(messages)]
      ids == ToolIds(response)
  IN /\ last.role = "user"
     /\ Len(last.content) = Len(ids)
     /\ \A j \in 1..Len(ids) :
          /\ last.content[j].type = "tool_result"
          /\ last.content[j].tool_use_id = ids[j]

C12_ModelFailurePropagates ==
  /\ [][(pc \in {"await_first", "await_next", "await_final"} /\ responses' = responses)
          => /\ pc' = "raised"
             /\ calls' = calls
             /\ executed' = executed
             /\ last_sources' = last_sources
             /\ result' = "None"]_vars
  /\ [][pc = "raised" => (pc' = "idle" /\ last_sources' = last_sources)]_vars

\* C12's case: the follow-up call raised after a round of tools had been run
C12_Witness ==
  /\ pc = "raised"
  /\ Len(calls) = 2
  /\ Len(responses) = 1
  /\ Len(executed) >= 1
  /\ OffersTools(calls[2])

(***************************************************************************)
(* The tools called directly (ToolSpec).                                   *)
(***************************************************************************)
\* the call logged last was CourseSearchTool.execute / CourseOutlineTool.execute
SearchCalled == Len(executed) = 1 /\ executed[1].name = "search_course_content"
OutlineCalled == Len(executed) = 1 /\ executed[1].name = "get_course_outline"

\* the result set the index gave to the search logged last
ResultsOfCall ==
  store_search(executed[1].input.query,
               Get(executed[1].input, "course_name", "None"),
               Get(executed[1].input, "lesson_number", -1))

\* the tools' slots when the call logged last returned and when it began
SearchSlot == executed[1].after["search_course_content"]
SearchSlotBefore == executed[1].before["search_course_content"]
OutlineSlot == executed[1].after["get_course_outline"]
OutlineSlotBefore == executed[1].before["get_course_outline"]

\* the result set has no error / has an error
ErrorUnset(results) == results.error \in {"None", ""}

\* C13 (as claimed): after CourseSearchTool.execute on a result set with no
\* error and zero documents, last_sources is empty, whatever it held before.
C13_EmptyResultClearsSources ==
  (SearchCalled /\ ErrorUnset(ResultsOfCall) /\ Len(ResultsOfCall.documents) = 0) =>
    SearchSlot = <<>>

\* C14: when the index returns a result set with error set, execute returns
\* exactly that error string, with no header or other formatting, and
\* last_sources is exactly what it was before the call.
C14_ErrorVerbatim ==
  (SearchCalled /\ ~ErrorUnset(ResultsOfCall)) =>
    /\ ~executed[1].raised
    /\ result = "Search error: index unavailable"
    /\ result = ResultsOfCall.error
    /\ SearchSlot = SearchSlotBefore

\* C14's case: the index failed on a search made while the slot held the three
\* sources of an earlier search
C14_Witness ==
  /\ SearchCalled
  /\ executed[1].input.query = "q_err"
  /\ Len(SearchSlotBefore) = 3
  /\ Len(SearchSlot) = 3

\* the texts of the sources a search of the index for `query` gives
ExpectedSourceTexts(query) ==
  CASE query = "q_hit" -> <<"MCP - Lesson 2">>
    [] query = "q_course" -> <<"MCP">>
    [] query = "q_many" -> <<"MCP - Lesson 0", "MCP", "Chroma - Lesson 3">>

\* C15: after execute on a non-error, non-empty result set, last_sources holds
\* exactly one source per (document, metadata) pair, in result order, the
\* text being '<course title>' for a pair without lesson number and
\* '<course title> - Lesson <n>' otherwise (lesson 0 included); its length is
\* the document count and nothing of an earlier search remains.
C15_SourcesReplaced ==
  (SearchCalled /\ ErrorUnset(ResultsOfCall) /\ Len(ResultsOfCall.documents) > 0) =>
    LET expected == ExpectedSourceTexts(executed[1].input.query) IN
      /\ Len(SearchSlot) = Len(ResultsOfCall.documents)
      /\ Len(SearchSlot) = Len(expected)
      /\ \A i \in 1..Len(expected) : SearchSlot[i].text = expected[i]

\* C15's case: a search with three passages, one of lesson 0 and one without
\* lesson, made while the slot held the source of an earlier search
C15_Witness ==
  /\ SearchCalled
  /\ executed[1].input.query = "q_many"
  /\ Len(SearchSlotBefore) = 1
  /\ SearchSlotBefore[1].text = "MCP - Lesson 2"
  /\ Len(SearchSlot) = 3

\* the text a search of the index for `query` returns
ExpectedSearchText(query) ==
  CASE query = "q_hit" -> "[MCP - Lesson 2]\ndoc A"
    [] query = "q_course" -> "[MCP]\ndoc B"
    [] query = "q_many" ->
         "[MCP - Lesson 0]\ndoc C\n\n[MCP]\ndoc D\n\n[Chroma - Lesson 3]\ndoc E"

\* C16: for a non-error, non-empty result set execute returns one block
\* '<header>\n<document text>' per pair in result order, joined by a blank
\* line, the header being '[<course title>]' without lesson number and
\* '[<course title> - Lesson <n>]' with one (0 included); the documents'
\* texts appear verbatim.
C16_BlocksFormatted ==
  (SearchCalled /\ ErrorUnset(ResultsOfCall) /\ Len(ResultsOfCall.documents) > 0) =>
    /\ ~executed[1].raised
    /\ result = ExpectedSearchText(executed[1].input.query)

\* C16's case: three passages, among them one of lesson 0 and one without lesson
C16_Witness ==
  /\ SearchCalled
  /\ executed[1].input = [query |-> "q_many", lesson_number |-> 0]
  /\ result = "[MCP - Lesson 0]\ndoc C\n\n[MCP]\ndoc D\n\n[Chroma - Lesson 3]\ndoc E"

\* C17 (as claimed): for a zero-document result execute returns exactly 'No
\* relevant content found', then " in course '<name>'" iff a course filter was
\* passed, then ' in lesson <n>' iff a lesson filter was passed, then '.', for
\* every combination of filters and every lesson number, 0 included.
C17_NoContentMessage ==
  (SearchCalled /\ ErrorUnset(ResultsOfCall) /\ Len(ResultsOfCall.documents) = 0) =>
    LET input == executed[1].input IN
      result = "No relevant content found"
                 \o (IF "course_name" \in DOMAIN input
                     THEN " in course '" \o input.course_name \o "'" ELSE "")
                 \o (IF "lesson_number" \in DOMAIN input
                     THEN " in lesson " \o ToStr(input.lesson_number) ELSE "")
                 \o "."

\* the link the source of a pair is to carry: the lesson's, else the course's
ExpectedLink(meta) ==
  LET lesson_link == IF "lesson_number" \in DOMAIN meta
                     THEN get_lesson_link(meta.course_title, meta.lesson_number)
                     ELSE "None"
  IN IF lesson_link # "None" THEN lesson_link ELSE get_course_link(meta.course_title)

\* C18 (as claimed): each source built by the search tool carries the lesson's
\* link when the index has one for that course and lesson, otherwise the
\* course-level link when the index has one, and only otherwise no link field.
C18_LinkFallback ==
  (SearchCalled /\ ErrorUnset(ResultsOfCall) /\ Len(ResultsOfCall.documents) > 0) =>
    \A i \in 1..Len(SearchSlot) :
      LET link == ExpectedLink(ResultsOfCall.metadata[i]) IN
        IF link # "None"
        THEN "link" \in DOMAIN SearchSlot[i] /\ SearchSlot[i].link = link
        ELSE "link" \notin DOMAIN SearchSlot[i]

\* C19: when the index cannot resolve the course title, CourseOutlineTool.execute
\* returns "No course found matching '<title>'" without raising and leaves
\* last_sources exactly as it was before the call.
C19_NoCourseFound ==
  (OutlineCalled /\ ~resolve_raises(executed[1].input.course_title)
     /\ _resolve_course_name(executed[1].input.course_title) = "None") =>
    /\ ~executed[1].raised
    /\ result = "No course found matching 'zzz'"
    /\ OutlineSlot = OutlineSlotBefore

\* C19's case: a title that does not resolve, asked for while the slot held
\* the source of an earlier outline
C19_Witness ==
  /\ OutlineCalled
  /\ executed[1].input.course_title = "zzz"
  /\ OutlineSlotBefore = <<[text |-> "MCP", link |-> "https://example.com/course/mcp"]>>
  /\ OutlineSlot = OutlineSlotBefore

\* the outlines of the two courses of the catalog that have one
McpOutline ==
  "**MCP**\n*Instructor: Ada*\n*Course Link: https://example.com/course/mcp*\n"
    \o "\n**Course Outline (2 lessons):**\n"
    \o "2. Servers - [Link](https://example.com/lesson/2)\n1. Intro"
ChromaOutline == "**Chroma**\n\nNo lessons found for this course."

\* C20: whenever CourseOutlineTool.execute returns an outline, last_sources is
\* exactly one entry whose text is the catalog record's title and which has a
\* link iff the record has a course link, whatever the slot held before.
C20_OutlineSource ==
  /\ (OutlineCalled /\ result = McpOutline) =>
       OutlineSlot = <<[text |-> "MCP", link |-> "https://example.com/course/mcp"]>>
  /\ (OutlineCalled /\ result = ChromaOutline) =>
       OutlineSlot = <<[text |-> "Chroma"]>>
  /\ (OutlineCalled /\ executed[1].input.course_title \in {"mcp", "chroma"}) =>
       result \in {McpOutline, ChromaOutline}

\* C20's case: the outline of a course without link, returned while the slot
\* held the linked source of another course
C20_Witness ==
  /\ OutlineCalled
  /\ result = ChromaOutline
  /\ OutlineSlotBefore = <<[text |-> "MCP", link |-> "https://example.com/course/mcp"]>>
  /\ OutlineSlot = <<[text |-> "Chroma"]>>

\* the outline of the course of the catalog with three lessons, no instructor
\* and no course link
RagOutline ==
  "**RAG**\n\n**Course Outline (3 lessons):**\n0. Welcome\n1. Basics\n2. Agents"

\* C21: for a resolved course with N >= 1 lessons the outline text is the title
\* header, an instructor line iff an instructor is recorded, a course-link line
\* iff a course link is recorded, the line "Course Outline (N lessons):" and
\* then the N lesson lines "<number>. <title>", with a link suffix iff the
\* lesson has a link, in the stored order of the lesson list (MCP stores
\* lesson 2 before lesson 1).
C21_OutlineText ==
  /\ (OutlineCalled /\ executed[1].input.course_title = "mcp") =>
       /\ ~executed[1].raised
       /\ result = "**MCP**\n*Instructor: Ada*\n"
                     \o "*Course Link: https://example.com/course/mcp*\n"
                     \o "\n**Course Outline (2 lessons):**\n"
                     \o "2. Servers - [Link](https://example.com/lesson/2)\n"
                     \o "1. Intro"
  /\ (OutlineCalled /\ executed[1].input.course_title = "rag") =>
       /\ ~executed[1].raised
       /\ result = RagOutline

\* C21's case: the outline of the course whose lessons are stored out of
\* numeric order, one of them with a link
C21_Witness ==
  /\ OutlineCalled
  /\ executed[1].input.course_title = "mcp"
  /\ result = McpOutline

C22_CaughtInsideTry ==
  (OutlineCalled /\ executed[1].input.course_title \in {"locked", "broken", "odd"}) =>
    /\ ~executed[1].raised
    /\ result \in {"Error retrieving course outline: index unavailable",
                   "Error retrieving course outline: "
                     \o "Expecting property name enclosed in double quotes",
                   "Error retrieving course outline: 'int' object has no attribute 'get'"}

(***************************************************************************)
(* The ToolManager's methods (ManagerSpec).                                *)
(***************************************************************************)
\* the method called last
MethodCalled(op) == Len(executed) = 1 /\ executed[1].op = op

\* the name each tool's definition bears ("None": the definition has no name)
NameOf(tool) ==
  CASE tool \in {"search_course_content", "stub_search"} -> "search_course_content"
    [] tool = "get_course_outline" -> "get_course_outline"
    [] tool = "empty_name" -> ""
    [] tool = "no_name" -> "None"

\* C23: register_tool raises ValueError when the tool's definition has no
\* name, missing or empty, and then leaves the registry as it was; otherwise
\* the tool is stored under the name of its own definition.
C23_RegisterNeedsName ==
  MethodCalled("register_tool") =>
    IF NameOf(executed[1].tool) \in {"None", ""}
    THEN /\ executed[1].raised
         /\ result = "Tool must have a 'name' in its definition"
         /\ registry = executed[1].tools_before
    ELSE /\ ~executed[1].raised
         /\ \E i \in 1..Len(registry) :
              /\ registry[i].key = NameOf(executed[1].tool)
              /\ registry[i].value = executed[1].tool
              /\ \A j \in 1..Len(registry) : registry[j].key = registry[i].key => j = i

\* C23's case: a tool whose definition has an empty name is refused by a
\* registry that holds two tools, which it still holds
C23_Witness ==
  /\ MethodCalled("register_tool")
  /\ executed[1].tool = "empty_name"
  /\ executed[1].raised
  /\ Len(executed[1].tools_before) = 2
  /\ registry = executed[1].tools_before

\* the tools registered so far whose name was not registered before them, and
\* for each name the tool registered last under it
FirstOfName(h, i) == \A j \in 1..(i - 1) : NameOf(h[j]) # NameOf(h[i])
LastOfName(h, name) ==
  h[CHOOSE k \in 1..Len(h) :
      NameOf(h[k]) = name /\ \A j \in (k + 1)..Len(h) : NameOf(h[j]) # name]
ListedTools(h) ==
  LET firsts == SelectSeq([i \in 1..Len(h) |-> i], LAMBDA i : FirstOfName(h, i))
  IN [n \in 1..Len(firsts) |-> LastOfName(h, NameOf(h[firsts[n]]))]

\* C24: after any sequence of register_tool calls, get_tool_definitions
\* returns one definition per distinct registered name, the names in the order
\* in which each was first registered, each definition that of the tool
\* registered last under the name; execute_tool with a registered name runs
\* the tool registered last under it; no registration of a named tool raises.
C24_LastRegistrationWins ==
  /\ MethodCalled("get_tool_definitions") =>
       /\ Len(result) = Len(ListedTools(Registrations))
       /\ \A n \in 1..Len(result) :
            /\ result[n] = get_tool_definition(ListedTools(Registrations)[n])
            /\ \A m \in 1..Len(result) : result[m].name = result[n].name => m = n
  /\ (MethodCalled("execute_tool") /\ executed[1].name = "search_course_content"
        /\ \E i \in 1..Len(Registrations) :
             NameOf(Registrations[i]) = "search_course_content") =>
       IF LastOfName(Registrations, "search_course_content") = "stub_search"
       THEN result = "stub result" /\ executed[1].after = executed[1].before
       ELSE result # "stub result"
  /\ (MethodCalled("register_tool") /\ NameOf(executed[1].tool) \notin {"None", ""}) =>
       ~executed[1].raised

\* C24's case: the search tool, the outline tool and then a second tool under
\* the search tool's name were registered: two definitions are listed, the
\* second tool's first
C24_Witness ==
  /\ MethodCalled("get_tool_definitions")
  /\ Registrations = <<"search_course_content", "get_course_outline", "stub_search">>
  /\ Len(result) = 2
  /\ result[1] = [name |-> "search_course_content", description |-> "stub"]
  /\ result[2].name = "get_course_outline"

\* some tool was registered under `name`
NameRegistered(name) ==
  \E i \in 1..Len(Registrations) : NameOf(Registrations[i]) = name

\* what the execute of `tool` gives for `input` when called directly with the
\* slots holding `ls`: whether it raises, its text, the slots afterwards
DirectCall(tool, input, ls) ==
  CASE tool = "search_course_content" ->
         LET r == CourseSearchTool_execute(input, ls["search_course_content"])
         IN <<r.raised, r.value, [ls EXCEPT !["search_course_content"] = r.last_sources]>>
    [] tool = "get_course_outline" ->
         LET r == CourseOutlineTool_execute(input, ls["get_course_outline"])
         IN <<r.raised, r.value, [ls EXCEPT !["get_course_outline"] = r.last_sources]>>
    [] tool = "stub_search" -> <<FALSE, "stub result", ls>>

\* C25: execute_tool with a name that is not registered returns
\* "Tool '<name>' not found" without raising and leaves every slot as it was
\* (no tool ran); with a registered name it gives what the execute of the tool
\* registered under that name gives for the same parameters: its text, its
\* exception, its change of the slots and no other.
C25_ExecuteDispatch ==
  MethodCalled("execute_tool") =>
    IF ~NameRegistered(executed[1].name)
    THEN /\ ~executed[1].raised
         /\ result = "Tool '" \o executed[1].name \o "' not found"
         /\ executed[1].after = executed[1].before
    ELSE <<executed[1].raised, result, executed[1].after>>
           = DirectCall(LastOfName(Registrations, executed[1].name),
                        executed[1].input, executed[1].before)

\* C25's case: a name that is not registered is asked for while the search
\* tool is registered and holds sources, which it keeps
C25_Witness ==
  /\ MethodCalled("execute_tool")
  /\ executed[1].name = "unknown_tool"
  /\ result = "Tool 'unknown_tool' not found"
  /\ NameRegistered("search_course_content")
  /\ Len(executed[1].before["search_course_content"]) > 0
  /\ executed[1].after = executed[1].before

\* the tools of the registry in its order, and those of them that held
\* sources when the call logged last began
SlotHolders == {"search_course_content", "get_course_outline"}
HoldingBefore ==
  {n \in 1..Len(ListedTools(Registrations)) :
     /\ ListedTools(Registrations)[n] \in SlotHolders
     /\ Len(executed[1].before[ListedTools(Registrations)[n]]) > 0}

\* C26: get_last_sources returns the last_sources of the first tool, in the
\* registry's order, whose last_sources is not empty, and [] when no
\* registered tool has any; it changes no tool's last_sources.
C26_FirstNonEmptySources ==
  MethodCalled("get_last_sources") =>
    /\ executed[1].after = executed[1].before
    /\ last_sources = executed[1].before
    /\ IF HoldingBefore = {}
       THEN caller_sources = <<>>
       ELSE \E n \in HoldingBefore :
              /\ \A m \in HoldingBefore : n <= m
              /\ caller_sources = executed[1].before[ListedTools(Registrations)[n]]

\* C26's case: the outline tool was registered before the search tool, both
\* hold sources, and the outline tool's are the ones returned
C26_Witness ==
  /\ MethodCalled("get_last_sources")
  /\ Registrations = <<"get_course_outline", "search_course_content">>
  /\ Len(executed[1].before["search_course_content"]) > 0
  /\ Len(executed[1].before["get_course_outline"]) > 0
  /\ caller_sources = executed[1].before["get_course_outline"]
  /\ caller_sources # executed[1].before["search_course_content"]

\* C27: reset_sources leaves the last_sources of every registered tool empty,
\* whatever the slots held; a second reset_sources in a row leaves the slots
\* as the first left them, and get_last_sources right after a reset_sources
\* returns [].
C27_ResetIdempotent ==
  /\ MethodCalled("reset_sources") =>
       \A n \in 1..Len(ListedTools(Registrations)) :
         ListedTools(Registrations)[n] \in SlotHolders =>
           /\ executed[1].after[ListedTools(Registrations)[n]] = <<>>
           /\ last_sources[ListedTools(Registrations)[n]] = <<>>
  /\ (MethodCalled("reset_sources") /\ executed[1].previous = "reset_sources") =>
       executed[1].after = executed[1].before
  /\ (MethodCalled("get_last_sources") /\ executed[1].previous = "reset_sources") =>
       caller_sources = <<>>

\* C27's case: with both tools registered, reset_sources right after a
\* reset_sources
C27_Witness ==
  /\ MethodCalled("reset_sources")
  /\ executed[1].previous = "reset_sources"
  /\ NameRegistered("search_course_content")
  /\ NameRegistered("get_course_outline")
  /\ \A t \in SlotHolders : last_sources[t] = <<>>

(***************************************************************************)
(* The caller's cycle (QuerySpec, SharedSpec).                             *)
(***************************************************************************)
\* every tool's last_sources is empty
AllSlotsEmpty == \A t \in DOMAIN last_sources : last_sources[t] = <<>>

\* the source lists the tool executions of the running query produced
ProducedByThisQuery ==
  {CourseSearchTool_execute(executed[i].input, <<>>).last_sources :
     i \in {j \in 1..Len(executed) :
              /\ executed[j].name = "search_course_content"
              /\ ~executed[j].raised}} \ {<<>>}

\* C28: when queries run one at a time on one ToolManager and every
\* generate_response call, returned or raised, is followed by get_last_sources
\* and then reset_sources, every tool's last_sources is empty when a
\* generate_response call starts, and the list get_last_sources gives for a
\* query is empty or was produced by a tool execution of that very query.
C28_NoStaleSources ==
  /\ pc \in {"idle", "await_first"} => AllSlotsEmpty
  /\ pc = "got_sources" =>
       caller_sources = <<>> \/ caller_sources \in ProducedByThisQuery

\* C28's case: the query before this one was given sources; this one has
\* returned without executing a tool and finds every slot empty
C28_Witness ==
  /\ pc = "returned"
  /\ caller_sources # <<>>
  /\ Len(executed) = 0
  /\ AllSlotsEmpty

\* the list the first query's own tool executions leave in the search tool's
\* slot when nothing else touches it: that of the last of them that stored one
OwnSources ==
  LET storing == {j \in 1..Len(executed) :
                    /\ executed[j].name = "search_course_content"
                    /\ ~executed[j].raised
                    /\ CourseSearchTool_execute(executed[j].input, <<>>).last_sources # <<>>}
  IN IF storing = {} THEN <<>>
     ELSE CourseSearchTool_execute(
            executed[CHOOSE j \in storing : \A k \in storing : j >= k].input,
            <<>>).last_sources

\* the list the second query's tool executions store
OtherSources == <<[text |-> "MCP", link |-> "https://example.com/course/mcp"]>>

C29_ClearedByTheOther ==
  /\ pc = "got_sources"
  /\ OwnSources # <<>>
  /\ caller_sources = <<>>
  /\ other_query.acted

\* a round is over and its results are on their way to the model
RoundHandedBack ==
  pc = "await_next" \/ (pc = "await_final" /\ critical_failure)

\* the messages of the request made last
LastRequestMessages == calls[Len(calls)].messages

\* C30: the tool results handed back to the model for a round are in the order
\* of the tool_use blocks of the response that asked for them, the i-th result
\* carrying the id of the i-th tool_use block; text blocks give no result and
\* no tool execution, and a response without tool_use block gives no results
\* message at all.
C30_ResultsInRequestOrder ==
  RoundHandedBack =>
    LET ids == ToolIds(current_response)
        last == LastRequestMessages[Len(LastRequestMessages)]
    IN /\ Len(ExecutedThisRound) = Len(ids)
       /\ \A i \in 1..Len(ids) : ExecutedThisRound[i].id = ids[i]
       /\ IF Len(ids) = 0
          THEN last = [role |-> "assistant", content |-> current_response.content]
          ELSE /\ last.role = "user"
               /\ Len(last.content) = Len(ids)
               /\ \A i \in 1..Len(ids) :
                    /\ last.content[i].type = "tool_result"
                    /\ last.content[i].tool_use_id = ids[i]
               /\ LastRequestMessages[Len(LastRequestMessages) - 1]
                    = [role |-> "assistant", content |-> current_response.content]

\* C30's case: the second response held two tool_use blocks, whose two results
\* go back in the blocks' order
C30_Witness ==
  /\ pc = "await_next"
  /\ current_round = 2
  /\ Len(current_response.content) = 2
  /\ ToolIds(current_response) = <<"toolu_2_1", "toolu_2_2">>
  /\ LastRequestMessages[Len(LastRequestMessages)].content[1].tool_use_id = "toolu_2_1"
  /\ LastRequestMessages[Len(LastRequestMessages)].content[2].tool_use_id = "toolu_2_2"

(***************************************************************************)
(* Error texts that are returned, not raised (SoftSpec).                   *)
(***************************************************************************)
\* the text the model is given for a tool call of the runs of SoftSpec
SoftResultText(block) ==
  CASE block.name = "unknown_tool" -> "Tool 'unknown_tool' not found"
    [] block.name = "get_course_outline" -> "No course found matching 'zzz'"
    [] block.name = "search_course_content" /\ "query" \in DOMAIN block.input ->
         "Search error: index unavailable"
    [] OTHER -> "Tool execution failed: execute() got unexpected arguments"

\* the tool call raised (the search called with the outline's arguments)
RaisingCall(e) ==
  e.name = "search_course_content" /\ "query" \notin DOMAIN e.input

\* C31: a tool call that ends in an error text that was returned (the
\* tool-not-found sentinel, the index's error string, the no-course-found
\* message) is not a failed call: the text goes to the model as it is, the
\* failure flag stays down, and a round of such calls is counted and followed
\* by the follow-up request (tool choice set, the tools that were supplied
\* offered), never by the closing request without tools, which is made only
\* after a call that raised.
C31_SoftErrorsAreNotFailures ==
  /\ \A j \in 1..Len(executed) : executed[j].raised = RaisingCall(executed[j])
  /\ pc = "exec_tools" =>
       /\ \A j \in 1..Len(BlocksDone) :
            tool_results[j].content = SoftResultText(BlocksDone[j])
       /\ critical_failure = (\E j \in 1..Len(BlocksDone) : RaisingCall(BlocksDone[j]))
  /\ pc = "await_final" =>
       \E j \in 1..Len(ExecutedThisRound) : RaisingCall(ExecutedThisRound[j])
  /\ pc = "await_next" =>
       /\ \A j \in 1..Len(executed) : ~RaisingCall(executed[j])
       /\ current_round = Len(responses)
       /\ Len(calls) = Len(responses) + 1
       /\ calls[Len(calls)].tool_choice = [type |-> "auto"]
       /\ calls[Len(calls)].messages = messages
       /\ (tools = ToolDefs => OffersTools(calls[Len(calls)]))

\* C31's case: two rounds whose every tool call ended in a returned error
\* text (sentinel, index error, no course found) were counted, and the third
\* request offers the tools
C31_Witness ==
  /\ pc = "await_next"
  /\ current_round = 2
  /\ tools = ToolDefs
  /\ Len(executed) = 3
  /\ executed[1].name = "unknown_tool"
  /\ executed[2].input = [query |-> "q_err"]
  /\ executed[3].name = "get_course_outline"
  /\ OffersTools(calls[3])

\* the system text of a call with the history "User: hi"
SystemWithHistory == "SYSTEM_PROMPT\n\nPrevious conversation:\nUser: hi"

\* C32: every model request of one generate_response call, the first, the
\* follow-ups and the closing one, carries the same model id, temperature 0,
\* max_tokens 800 and the system text of the first request, which is the
\* system prompt followed by the conversation history when a history was
\* passed and the bare system prompt otherwise.
C32_SameParameters ==
  /\ \A i \in 1..Len(calls) :
       /\ calls[i].model = "model"
       /\ calls[i].temperature = 0
       /\ calls[i].max_tokens = 800
       /\ calls[i].system = calls[1].system
       /\ calls[i].system = api_params.system
  /\ \A query \in Queries, tls \in ToolsArgs :
       /\ FirstParams(query, "User: hi", tls).system = SystemWithHistory
       /\ FirstParams(query, "None", tls).system = "SYSTEM_PROMPT"
  /\ Len(calls) > 0 => calls[1].system \in {"SYSTEM_PROMPT", SystemWithHistory}

\* C32's case: a call with a history whose second round failed: the first
\* request, a follow-up and the closing request carry the history
C32_Witness ==
  /\ pc = "await_final"
  /\ Len(calls) = 3
  /\ calls[1].system = SystemWithHistory
  /\ calls[2].system = SystemWithHistory
  /\ calls[3].system = SystemWithHistory
  /\ "tools" \in DOMAIN calls[2]
  /\ "tools" \notin DOMAIN calls[3]

\* the step in which the follow-up request made after the first round, the
\* round counter at 1, is answered
SecondResponseArrives ==
  pc = "await_next" /\ current_round = 1 /\ Len(responses') = 2

\* C33 (as claimed): after a first round without failure, which leaves the
\* round counter at 1, generate_response starts a second round exactly when
\* the second response's stop reason is tool use; otherwise it returns that
\* response's text and executes no further tool, whatever blocks it holds.
C33_ContinueOnStopReason ==
  [][SecondResponseArrives =>
       IF responses'[2].stop_reason = "tool_use"
       THEN pc' = "exec_tools"
       ELSE /\ pc' \in {"returned", "raised"}
            /\ HasText(responses'[2]) =>
                 (pc' = "returned" /\ result' = responses'[2].content[1].text)
    ]_vars

\* what the code does in C33's place: the second round starts exactly when
\* the second response holds a tool_use block, whatever its stop reason
C33_ContinueOnBlocks ==
  [][SecondResponseArrives =>
       IF Len(ToolIds(responses'[2])) > 0
       THEN pc' = "exec_tools"
       ELSE /\ pc' \in {"returned", "raised"}
            /\ HasText(responses'[2]) =>
                 (pc' = "returned" /\ result' = responses'[2].content[1].text)
    ]_vars

\* ---- C34 ----
\* the slots as a call finds them when nothing ran before it
NoSources == [t \in DOMAIN last_sources |-> <<>>]

\* how a call that ran alone ended: its requests, its tool executions, its
\* round counter and what it returned
AloneEnd(cs, ex, round, response) ==
  [calls |-> cs, executed |-> ex, current_round |-> round,
   pc |-> IF HasText(response) THEN "returned" ELSE "raised",
   result |-> IF HasText(response) THEN response.content[1].text ELSE "None"]

AloneRaise(cs, ex, round) ==
  [calls |-> cs, executed |-> ex, current_round |-> round,
   pc |-> "raised", result |-> "None"]

\* the tool executions of the k-th response of a call that ran alone, block
\* by block from block i on
RECURSIVE AloneBlocks(_, _, _, _)
AloneBlocks(content, i, k, acc) ==
  IF i > Len(content) THEN acc
  ELSE LET b == content[i] IN
    IF b.type # "tool_use" THEN AloneBlocks(content, i + 1, k, acc)
    ELSE LET r == execute_tool(registry, b.name, b.input, NoSources) IN
      AloneBlocks(content, i + 1, k,
        [results |-> Append(acc.results,
                            [type |-> "tool_result", tool_use_id |-> b.id,
                             content |-> IF r.raised
                                         THEN "Tool execution failed: " \o r.value
                                         ELSE r.value]),
         failed |-> acc.failed \/ r.raised,
         executed |-> Append(acc.executed,
                             [id |-> b.id, name |-> b.name, input |-> b.input,
                              response |-> k, raised |-> r.raised])])

\* the closing call of a call that ran alone, answered by the k-th response
AloneFinal(first, resps, k, msgs, round, cs, ex) ==
  LET c == Append(cs, [messages |-> msgs, system |-> first.system] @@ base_params) IN
    IF Len(resps) < k THEN AloneRaise(c, ex, round)
    ELSE AloneEnd(c, ex, round, resps[k])

\* the rounds of a call that ran alone, from the round on the k-th response on
RECURSIVE AloneLoop(_, _, _, _, _, _, _)
AloneLoop(first, resps, k, msgs, round, cs, ex) ==
  LET response == resps[k]
      x == AloneBlocks(response.content, 1, k,
                       [results |-> <<>>, failed |-> FALSE, executed |-> <<>>])
      m1 == Append(msgs, [role |-> "assistant", content |-> response.content])
      m2 == IF x.results # <<>>
            THEN Append(m1, [role |-> "user", content |-> x.results]) ELSE m1
      ex2 == ex \o x.executed
  IN IF x.failed THEN AloneFinal(first, resps, k + 1, m2, round, cs, ex2)
     ELSE LET c == Append(cs, [messages |-> m2, system |-> first.system,
                               tools |-> Get(first, "tools", "None"),
                               tool_choice |-> [type |-> "auto"]] @@ base_params)
          IN IF Len(resps) < k + 1 THEN AloneRaise(c, ex2, round + 1)
             ELSE LET nxt == resps[k + 1] IN
               IF /\ round + 1 < max_rounds
                  /\ \E i \in 1..Len(nxt.content) : nxt.content[i].type = "tool_use"
               THEN AloneLoop(first, resps, k + 1, m2, round + 1, c, ex2)
               ELSE AloneEnd(c, ex2, round + 1, nxt)

\* the call that makes the request `first` and is answered by resps, alone on
\* the AIGenerator
Alone(first, tm, resps) ==
  IF Len(resps) = 0 THEN AloneRaise(<<first>>, <<>>, 0)
  ELSE IF resps[1].stop_reason = "tool_use" /\ tm
       THEN AloneLoop(first, resps, 1, first.messages, 0, <<first>>, <<>>)
       ELSE AloneEnd(<<first>>, <<>>, 0, resps[1])

\* what the first call did, once it is over
Outcome == [calls |-> calls, executed |-> executed, current_round |-> current_round,
            pc |-> pc, result |-> result]

\* the tool_use ids in a message list
ToolUseIds(msgs) ==
  {msgs[i].content[j].id : <<i, j>> \in
     {p \in (1..Len(msgs)) \X (1..MaxBlocks) :
        /\ msgs[p[1]].role = "assistant"
        /\ p[2] <= Len(msgs[p[1]].content)
        /\ msgs[p[1]].content[p[2]].type = "tool_use"}}

OtherIds == {"toolu_other_" \o ToStr(n) : n \in 1..(max_rounds + 1)}

\* the assistant entries of a message list
AssistantEntries(msgs) == {i \in 1..Len(msgs) : msgs[i].role = "assistant"}

\* the second call's frame holds its own rounds and nothing of the first's
OtherFrameIsItsOwn ==
  other_query.pc # "idle" =>
    /\ other_query.current_round = Cardinality(AssistantEntries(other_query.messages))
    /\ Len(other_query.messages) = 1 + 2 * other_query.current_round
    /\ other_query.messages[1] = [role |-> "user", content |-> OtherQuery]
    /\ ToolUseIds(other_query.messages) \subseteq OtherIds
    /\ Len(other_query.calls) = other_query.current_round + 1
    /\ other_query.calls[Len(other_query.calls)].messages = other_query.messages

\* C34: of two generate_response calls that run at the same time on one
\* AIGenerator, each keeps its own round counter and its own message list:
\* the first call's requests, tool executions, round counter and returned
\* text are those of the same call run alone on the same responses, nothing
\* of the second call's messages is in the first's, and the second call's
\* counter and messages are those of its own rounds.
C34_CallsShareNoFrame ==
  /\ Finished => Outcome = Alone(calls[1], tool_manager, responses)
  /\ ToolUseIds(messages) \cap OtherIds = {}
  /\ OtherFrameIsItsOwn

\* both calls are through a round of their own and the first one is over
\* while the second is still running
C34_Witness ==
  /\ pc = "returned"
  /\ current_round = 2
  /\ other_query.pc = "await"
  /\ other_query.current_round = 1
  /\ executed # <<>>

\* ---- C35 ----
\* the tool execute_tool(name) dispatches to in the registry tls, "None" when
\* the name is not registered
Dispatched(tls, name) == IF IsRegistered(tls, name) THEN DictGet(tls, name) ELSE "None"

\* every slot but the one of `tool` is what it was
OtherSlotsKept(tool) ==
  /\ DOMAIN last_sources' = DOMAIN last_sources
  /\ \A t \in DOMAIN last_sources : t # tool => last_sources'[t] = last_sources[t]

\* the step is a call of the ToolManager's method `op`
ManagerStep(op) == Len(executed') = 1 /\ executed'[1].op = op

\* C35: executing a tool changes at most that tool's own last_sources:
\* execute_tool leaves the registry and the slot of every tool but the one it
\* dispatches to as they were (all of them when the name is not registered);
\* get_last_sources changes neither the slots nor the registry; reset_sources
\* leaves the registry and leaves each slot as it was or empty; register_tool
\* leaves the slots.
C35_OnlyTheOwnSlot ==
  [][/\ ManagerStep("execute_tool") =>
          /\ registry' = registry
          /\ OtherSlotsKept(Dispatched(registry, executed'[1].name))
     /\ ManagerStep("get_last_sources") =>
          (registry' = registry /\ last_sources' = last_sources)
     /\ ManagerStep("reset_sources") =>
          /\ registry' = registry
          /\ DOMAIN last_sources' = DOMAIN last_sources
          /\ \A t \in DOMAIN last_sources :
               last_sources'[t] = last_sources[t] \/ last_sources'[t] = <<>>
     /\ ManagerStep("register_tool") => last_sources' = last_sources
    ]_<<registry, last_sources>>

\* the outline tool was executed and filled its slot while the search tool's
\* slot held sources, which are still there
C35_Witness ==
  /\ Len(executed) = 1
  /\ executed[1].op = "execute_tool"
  /\ Dispatched(executed[1].tools_before, executed[1].name) = "get_course_outline"
  /\ executed[1].before["search_course_content"] # <<>>
  /\ executed[1].after["get_course_outline"] # executed[1].before["get_course_outline"]
  /\ last_sources["search_course_content"] = executed[1].before["search_course_content"]

\* ---- C36 ----
\* the tool_use blocks of a content, in order
ToolUseBlocks(content) == SelectSeq(content, LAMBDA b : b.type = "tool_use")

\* the message list of a request: the user query first, user and assistant
\* entries in turn, a user entry last, and after each assistant entry a user
\* entry with one tool_result per tool_use block of it, in order
WellFormedMessages(msgs) ==
  /\ Len(msgs) >= 1
  /\ msgs[1].role = "user"
  /\ \A i \in 1..Len(msgs) : msgs[i].role = (IF i % 2 = 1 THEN "user" ELSE "assistant")
  /\ msgs[Len(msgs)].role = "user"
  /\ \A i \in 1..Len(msgs) :
       msgs[i].role = "assistant" =>
         /\ i < Len(msgs)
         /\ msgs[i + 1].role = "user"
         /\ LET asked == ToolUseBlocks(msgs[i].content)
                answers == msgs[i + 1].content
            IN /\ Len(answers) = Len(asked)
               /\ \A j \in 1..Len(asked) :
                    /\ answers[j].type = "tool_result"
                    /\ answers[j].tool_use_id = asked[j].id

\* C36 (as claimed): in every request generate_response issues the message
\* list starts with the user query, alternates user and assistant entries,
\* ends with a user entry, and every assistant entry is followed by a user
\* entry with one tool result per tool-call block, whatever the responses,
\* one with stop reason tool_use and no tool-call block included.
C36_MessagesWellFormed ==
  \A n \in 1..Len(calls) :
    /\ calls[n].messages[1] = [role |-> "user", content |-> calls[1].messages[1].content]
    /\ WellFormedMessages(calls[n].messages)

\* the rounds of the call so far were all started on a response that holds a
\* tool_use block
RoundsHadToolCalls ==
  \A k \in 1..Len(responses) :
    (k < Len(calls) /\ Len(calls[k + 1].messages) > Len(calls[k].messages)) =>
      ToolUseBlocks(responses[k].content) # <<>>

\* C36 for the rounds that execute a tool: as long as every round was started
\* on a response with a tool-call block, the requests are well formed.
C36_WellFormedWithToolCalls ==
  RoundsHadToolCalls =>
    \A n \in 1..Len(calls) : WellFormedMessages(calls[n].messages)

\* a request made after two rounds that executed tools
C36_Witness ==
  /\ Len(calls) = 3
  /\ RoundsHadToolCalls
  /\ Len(calls[3].messages) = 5

\* ---- C37 ----
\* the response the call returned on, and the request it answered
LastResponse == responses[Len(responses)]
LastCall == calls[Len(responses)]

\* the response asks for a tool: by its stop reason or by its first block
AsksForTool(response) ==
  \/ response.stop_reason = "tool_use"
  \/ (Len(response.content) > 0 /\ response.content[1].type = "tool_use")

\* C37 (as claimed): the text generate_response returns is never taken from
\* a response that requests a tool: it is the first block of a response that
\* ended naturally or that answered a request made without tools.
C37_TextNotFromToolRequest ==
  pc = "returned" =>
    /\ result = LastResponse.content[1].text
    /\ (~AsksForTool(LastResponse) \/ ~OffersTools(LastCall))

\* C37, what the code does: the returned text is the first block, a text
\* block, of the last response received, whatever its stop reason.
C37_TextOfLastResponse ==
  pc = "returned" =>
    /\ Len(responses) = Len(calls)
    /\ HasText(LastResponse)
    /\ result = LastResponse.content[1].text

\* ---- C38 ----
\* the title the outline call logged last was made with
TitleAsked == executed[1].input.course_title

\* the outline call logged last returned no outline: no matching course, no
\* metadata, or an error string from a caught exception
NoMatchReturned == result = "No course found matching '" \o TitleAsked \o "'"
NoMetadataReturned ==
  result = "Course '" \o TitleAsked \o "' found but no metadata available"
ErrorReturned ==
  result \in {"Error retrieving course outline: " \o IndexDown,
              "Error retrieving course outline: "
                \o "Expecting property name enclosed in double quotes",
              "Error retrieving course outline: 'int' object has no attribute 'get'"}

C38_EarlyReturnsKeepSources ==
  (OutlineCalled /\ ~executed[1].raised
     /\ (NoMatchReturned \/ NoMetadataReturned
           \/ (ErrorReturned /\ TitleAsked \in {"locked", "broken"}))) =>
    OutlineSlot = OutlineSlotBefore

\* an unparsable lesson list came back as an error while the slot held the
\* source of an earlier outline, which is still there
C38_Witness ==
  /\ OutlineCalled
  /\ TitleAsked = "broken"
  /\ ErrorReturned
  /\ OutlineSlotBefore # <<>>
  /\ OutlineSlot = OutlineSlotBefore

\* ---- C39 ----
\* the slot of every registered tool that has one is empty after the step
RegisteredSlotsEmptied ==
  \A i \in 1..Len(registry') :
    HasSources(registry'[i].value, last_sources') =>
      last_sources'[registry'[i].value] = <<>>

\* C39: the list a caller got from get_last_sources is not changed by a
\* later reset_sources or by a later execute of a tool: across either call
\* the caller's list keeps the elements it had, and after reset_sources the
\* slot of every registered tool is empty.
C39_CallerListKept ==
  [][/\ ManagerStep("reset_sources") =>
          (caller_sources' = caller_sources /\ RegisteredSlotsEmptied)
     /\ ManagerStep("execute_tool") => caller_sources' = caller_sources
    ]_<<caller_sources, last_sources>>

\* "sources = get_last_sources(); reset_sources()": the caller got the list
\* that was a tool's last_sources, the reset emptied the slot, the caller's
\* list still holds the sources
C39_Witness ==
  /\ MethodCalled("reset_sources")
  /\ executed[1].previous = "get_last_sources"
  /\ caller_sources # <<>>
  /\ \E t \in DOMAIN last_sources :
       /\ executed[1].before[t] = caller_sources
       /\ last_sources[t] = <<>>
  /\ executed[1].alias = "None"

====
